---- MODULE Spec2Model ----
\* Syntax <-> definition mapping of rust-analyzer (hir::semantics::source_to_def,
\* hir_def::src, hir_def::dyn_map::def_to_src, hir_def::src_def_cashe).
\*
\* The database (syntax trees, item trees, crate graph, def maps) is fixed data;
\* the state is the per-session SourceToDefCache, the def-to-source DynMap and
\* the record of the last call and its result.
EXTENDS Integers, Sequences, FiniteSets, TLC

\* ---------------------------------------------------------------------------
\* Bounds
\* ---------------------------------------------------------------------------
\* number of calls made on one SourceToDefCtx session
MaxOps == 2
\* number of explicitly written type-or-const parameters / semantic indices drawn
MaxParams == 2
\* frames one resolve call may nest
MaxDepth == 6

\* ---------------------------------------------------------------------------
\* Option::None of the various result types
\* ---------------------------------------------------------------------------
NoNode == "none"
NoFile == "none"
NoDef == [kind |-> "None", crate |-> "", name |-> "", local |-> 0]
NoContainer == [tag |-> "None", def |-> NoDef]
NoFound == [tag |-> "None", def |-> NoDef, node |-> NoNode]
NoPtr == <<"None", 0>>

VARIABLES
  dynmap_cache,          \* SourceToDefCache.dynmap_cache: (container, file) -> DynMap
  expansion_info_cache,  \* SourceToDefCache.expansion_info_cache
  file_to_def_cache,     \* SourceToDefCache.file_to_def_cache: file -> modules
  computed,              \* per (container, file): how often child_by_source ran
  served,                \* the (container, file) keys cache_for answered from the cache
  db,                    \* the database the session reads: syntax trees, item trees, AstIdMap
  crate_order,           \* the order in which db.relevant_crates lists crates
  last,                  \* the last call on the session and what it returned
  nops,                  \* number of calls made on the session
  d2s,                   \* the DynMap behind DefToSrcCacheContext
  dlast,                 \* the last call on d2s
  dwritten,              \* per (key, id): the pointer the latest insert wrote
  gin,                   \* input of the last child_source call
  gout,                  \* its result
  stack,                 \* call stack of one resolve call: the frames of the ancestor walks
  wret,                  \* the value the frame popped last returned, until the caller takes it
  wstart,                \* the call the stack was started with
  sess                   \* concurrent sessions: per session its cache, last result, calls

\* ---------------------------------------------------------------------------
\* The database: syntax trees
\* ---------------------------------------------------------------------------
\* <<node, file, syntax kind, parent, structural coordinate>>
\* "lib" is the root file of crates ca and cb, "main" the root file of crate cc,
\* "mx1" the expansion of the call m_mc, "mx2" the expansion of the call x_mc
\* inside mx1, "mxa" the expansion of the attribute on m_att, "mx0" an
\* expansion without argument site, "inc" and "mix" files reached through
\* include!, "det" a file no crate knows, "orph" a file in the source roots of
\* ca and cc that no module declares.
SyntaxRows ==
  { <<"l_root", "lib", "SourceFile", NoNode, 0>>,
    <<"l_st", "lib", "Struct", "l_root", 1>>,
    <<"l_fl", "lib", "RecordFieldList", "l_st", 2>>,
    <<"l_fa", "lib", "RecordField", "l_fl", 3>>,
    <<"l_fb", "lib", "RecordField", "l_fl", 4>>,
    <<"l_tr", "lib", "Trait", "l_root", 5>>,
    <<"l_gp", "lib", "GenericParamList", "l_tr", 6>>,
    <<"l_tp", "lib", "TypeParam", "l_gp", 7>>,
    <<"l_mod", "lib", "Module", "l_root", 8>>,
    <<"l_mfn", "lib", "Fn", "l_mod", 9>>,
    <<"m_root", "main", "SourceFile", NoNode, 0>>,
    <<"m_en", "main", "Enum", "m_root", 1>>,
    <<"m_va", "main", "Variant", "m_en", 2>>,
    <<"m_vf", "main", "TupleField", "m_va", 3>>,
    <<"m_co", "main", "Const", "m_root", 4>>,
    <<"m_sta", "main", "Static", "m_root", 5>>,
    <<"m_un", "main", "Union", "m_root", 6>>,
    <<"m_uf", "main", "RecordField", "m_un", 16>>,
    <<"m_ta", "main", "TypeAlias", "m_root", 7>>,
    <<"m_tra", "main", "TraitAlias", "m_root", 8>>,
    <<"m_imp", "main", "Impl", "m_root", 9>>,
    <<"m_att", "main", "Fn", "m_imp", 10>>,
    <<"m_ap", "main", "ParamList", "m_att", 17>>,
    <<"m_mr", "main", "MacroRules", "m_root", 11>>,
    <<"m_mod", "main", "Module", "m_root", 12>>,
    <<"m_mc", "main", "MacroCall", "m_mod", 13>>,
    <<"m_tt", "main", "TokenTree", "m_mc", 14>>,
    <<"m_fn", "main", "Fn", "m_root", 15>>,
    <<"m_blk", "main", "BlockExpr", "m_fn", 21>>,
    <<"m_bmod", "main", "Module", "m_blk", 22>>,
    <<"m_bmod2", "main", "Module", "m_bmod", 23>>,
    <<"m_mod2", "main", "Module", "m_mod", 18>>,
    <<"m_modx", "main", "Module", "m_root", 19>>,
    <<"m_utp", "main", "TypeParam", "m_un", 24>>,
    <<"m_tatp", "main", "TypeParam", "m_ta", 25>>,
    <<"m_b2tp", "main", "TypeParam", "m_bmod2", 26>>,
    <<"m_atp", "main", "TypeParam", "m_ap", 27>>,
    <<"m_ctp", "main", "TypeParam", "m_co", 28>>,
    <<"m_stp", "main", "TypeParam", "m_sta", 29>>,
    <<"m_kpat", "main", "IdentPat", "m_blk", 30>>,
    <<"m_kcon", "main", "IdentPat", "m_blk", 31>>,
    <<"m_knop", "main", "IdentPat", "m_blk", 32>>,
    <<"m_cpat", "main", "IdentPat", "m_co", 33>>,
    <<"m_vpat", "main", "IdentPat", "m_va", 34>>,
    <<"m_bpat", "main", "IdentPat", "m_bmod", 35>>,
    <<"m_upat", "main", "IdentPat", "m_un", 36>>,
    <<"m_ksp", "main", "SelfParam", "m_fn", 37>>,
    <<"m_asp", "main", "SelfParam", "m_ap", 38>>,
    <<"m_klab", "main", "Label", "m_blk", 39>>,
    <<"m_tafn", "main", "Fn", "m_ta", 40>>,
    <<"m_trafn", "main", "Fn", "m_tra", 41>>,
    <<"x_root", "mx1", "MacroItems", NoNode, 0>>,
    <<"x_fn", "mx1", "Fn", "x_root", 15>>,
    <<"x_mc", "mx1", "MacroCall", "x_root", 2>>,
    <<"x_tt", "mx1", "TokenTree", "x_mc", 3>>,
    <<"x_mod", "mx1", "Module", "x_root", 4>>,
    <<"y_root", "mx2", "MacroItems", NoNode, 0>>,
    <<"y_st", "mx2", "Struct", "y_root", 1>>,
    <<"y_f", "mx2", "RecordField", "y_st", 2>>,
    <<"a_root", "mxa", "MacroItems", NoNode, 0>>,
    <<"a_fn", "mxa", "Fn", "a_root", 10>>,
    <<"a_sp", "mxa", "SelfParam", "a_fn", 11>>,
    <<"a_pat", "mxa", "IdentPat", "a_fn", 12>>,
    <<"z_root", "mx0", "MacroItems", NoNode, 0>>,
    <<"z_fn", "mx0", "Fn", "z_root", 1>>,
    <<"i_root", "inc", "SourceFile", NoNode, 0>>,
    <<"i_fn", "inc", "Fn", "i_root", 1>>,
    <<"d_root", "det", "SourceFile", NoNode, 0>>,
    <<"d_fn", "det", "Fn", "d_root", 1>>,
    <<"d_mod", "det", "Module", "d_root", 2>> }

\* db.parse / db.parse_or_expand: every node with its file, kind, parent and coordinate
SyntaxTable ==
  [ n \in { r[1] : r \in SyntaxRows } |->
      LET r == CHOOSE r \in SyntaxRows : r[1] = n
      IN  [file |-> r[2], kind |-> r[3], parent |-> r[4], coord |-> r[5]] ]

NodeTab == db.syntax
NodeIds == DOMAIN db.syntax

RealFiles == {"lib", "main", "inc", "mix", "det", "orph"}
MacroFiles == {"mx1", "mx2", "mxa", "mx0"}
Files == RealFiles \cup MacroFiles

\* name of a `mod` declaration (ast::Module::name)
ModName(n) ==
  CASE n \in {"l_mod", "m_mod", "d_mod"} -> "inner"
    [] n \in {"m_mod2", "m_bmod2"} -> "deep"
    [] n = "x_mod" -> "gen"
    [] n = "m_bmod" -> "inb"
    [] OTHER -> "none"

\* AstPtr::new: the identity-less pointer (kind, structural coordinate); nodes
\* of different files may have equal pointers
AstPtrNew(n) == <<NodeTab[n].kind, NodeTab[n].coord>>

\* AstPtr::to_node against the tree of a file
ToNode(file, ptr) ==
  LET hits == { n \in NodeIds : NodeTab[n].file = file /\ AstPtrNew(n) = ptr }
  IN  IF hits = {} THEN NoNode ELSE CHOOSE n \in hits : TRUE

\* ---------------------------------------------------------------------------
\* The database: macro expansions
\* ---------------------------------------------------------------------------
\* HirFileId::macro_file
IsMacroFile(file) == file \in MacroFiles

\* MacroFileId::expansion_info: the argument site of the expansion (absent for
\* mx0) and the file that holds the call
ExpansionInfoOf(mfile) ==
  CASE mfile = "mx1" -> [call_file |-> "main", arg |-> "m_tt"]
    [] mfile = "mx2" -> [call_file |-> "mx1", arg |-> "x_tt"]
    [] mfile = "mxa" -> [call_file |-> "main", arg |-> "m_att"]
    [] mfile = "mx0" -> [call_file |-> "main", arg |-> NoNode]

\* HirFileId::original_file: the real file at the bottom of the expansion chain
RECURSIVE OriginalFile(_)
OriginalFile(file) ==
  IF IsMacroFile(file) THEN OriginalFile(ExpansionInfoOf(file).call_file) ELSE file

\* ---------------------------------------------------------------------------
\* The database: crate graph and def maps
\* ---------------------------------------------------------------------------
Crates == {"ca", "cb", "cc"}

ModuleId(c, name) == [kind |-> "ModuleId", crate |-> c, name |-> name, local |-> 0]

\* DefMap::modules_for_file, as the sequence the iterator yields
ModulesForFile(c, file) ==
  CASE file = "lib" /\ c \in {"ca", "cb"} -> <<ModuleId(c, "root")>>
    [] file = "main" /\ c = "cc" -> <<ModuleId(c, "root")>>
    [] file = "mix" /\ c = "ca" -> <<ModuleId(c, "mix"), ModuleId(c, "mix2")>>
    [] OTHER -> <<>>

\* db.include_macro_invoc(crate): <<file holding the include! call, included file>>
IncludeMacroInvoc(c) ==
  CASE c = "ca" -> << <<"lib", "mix">>, <<"lib", "inc">> >>
    [] c = "cb" -> << <<"lib", "inc">>, <<"lib", "mix">> >>
    [] c = "cc" -> << <<"mx1", "inc">> >>
    [] OTHER -> <<>>

\* DefMap children of a module, by name
ModuleChild(m, name) ==
  IF m.kind = "ModuleId" /\ <<m.name, name>> \in
       {<<"root", "inner">>, <<"inner", "deep">>, <<"inner", "gen">>, <<"k", "inb">>}
  THEN ModuleId(m.crate, name)
  ELSE NoDef

\* ---------------------------------------------------------------------------
\* The database: item trees, AstIdMap and interned locations
\* ---------------------------------------------------------------------------
\* db.ast_id_map(file): ErasedFileAstId (1-based) -> the node it was allocated for
AstIdTable(file) ==
  CASE file = "lib" -> <<"l_st", "l_tr", "l_mod", "l_mfn">>
    [] file = "main" -> <<"m_en", "m_va", "m_co", "m_sta", "m_un", "m_ta", "m_tra",
                          "m_imp", "m_att", "m_mr", "m_mod", "m_mc", "m_fn",
                          "m_bmod", "m_bmod2", "m_mod2", "m_modx">>
    [] file = "mx1" -> <<"x_fn", "x_mc", "x_mod">>
    [] file = "mx2" -> <<"y_st">>
    [] file = "mxa" -> <<"a_fn">>
    [] file = "mx0" -> <<"z_fn">>
    [] OTHER -> <<>>

AstIdNodes(file) == db.ast_ids[file]

\* AstIdMap::get
AstIdMapGet(file, ast_id) == AstPtrNew(AstIdNodes(file)[ast_id])

\* <<name, id kind, owning container tag, owning container name, file, ast_id>>
\* in item-tree order; the items of lib exist once per crate that compiles lib
LibItems ==
  << <<"S", "StructId", "ModuleId", "root", "lib", 1>>,
     <<"T", "TraitId", "ModuleId", "root", "lib", 2>>,
     <<"f", "FunctionId", "ModuleId", "inner", "lib", 4>> >>

MainItems ==
  << <<"E", "EnumId", "ModuleId", "root", "main", 1>>,
     <<"V", "EnumVariantId", "EnumId", "E", "main", 2>>,
     <<"C", "ConstId", "ModuleId", "root", "main", 3>>,
     <<"ST", "StaticId", "ModuleId", "root", "main", 4>>,
     <<"U", "UnionId", "ModuleId", "root", "main", 5>>,
     <<"TA", "TypeAliasId", "ModuleId", "root", "main", 6>>,
     <<"TRA", "TraitAliasId", "ModuleId", "root", "main", 7>>,
     <<"I", "ImplId", "ModuleId", "root", "main", 8>>,
     <<"MR", "MacroRulesId", "ModuleId", "root", "main", 10>>,
     <<"k", "FunctionId", "ModuleId", "root", "main", 13>>,
     <<"h", "FunctionId", "ImplId", "I", "mxa", 1>>,
     <<"g", "FunctionId", "ModuleId", "inner", "mx1", 1>>,
     <<"Q", "StructId", "ModuleId", "inner", "mx2", 1>>,
     <<"z", "FunctionId", "ModuleId", "root", "mx0", 1>> >>

ItemTable(c) ==
  CASE c \in {"ca", "cb"} -> LibItems
    [] c = "cc" -> MainItems
    [] OTHER -> <<>>

ItemRowsOf(c) == db.items[c]

\* the database of the session
Database ==
  [syntax |-> SyntaxTable,
   ast_ids |-> [file \in Files |-> AstIdTable(file)],
   items |-> [c \in Crates |-> ItemTable(c)]]

DefId(kind, c, name, local) == [kind |-> kind, crate |-> c, name |-> name, local |-> local]

\* the interned ids of all items
ItemDefs ==
  UNION { { DefId(ItemRowsOf(c)[i][2], c, ItemRowsOf(c)[i][1], 0) :
              i \in 1..Len(ItemRowsOf(c)) } : c \in Crates }

ItemRow(d) ==
  LET rows == ItemRowsOf(d.crate)
  IN  rows[CHOOSE i \in 1..Len(rows) : rows[i][1] = d.name /\ rows[i][2] = d.kind]

\* id.lookup(db): the ItemLoc of an item id
Lookup(d) ==
  LET r == ItemRow(d)
  IN  [container |-> [tag |-> r[3],
                      def |-> DefId(r[3], d.crate, r[4], 0)],
       file |-> r[5], ast_id |-> r[6]]

\* src.rs ast_ptr: the pointer of an item from its location
ast_ptr(loc) == AstIdMapGet(loc.file, loc.ast_id)

\* HasSource::source of an item id: the node the pointer denotes in its file
source(d) == ToNode(Lookup(d).file, ast_ptr(Lookup(d)))

\* ---------------------------------------------------------------------------
\* DynMap and its key policies
\* ---------------------------------------------------------------------------
\* A DynMap holds one backing hash map per type tag; a backing map exists only
\* once something was inserted under its tag.
EmptyDynMap == [t \in {} |-> 0]

\* keys: the (id type, ast type) pair a key is declared with
Key(id, ast) == [id |-> id, ast |-> ast]
STRUCT == Key("StructId", "Struct")
UNION_ == Key("UnionId", "Union")
ENUM == Key("EnumId", "Enum")
ENUM_VARIANT == Key("EnumVariantId", "Variant")
FUNCTION == Key("FunctionId", "Fn")
CONST == Key("ConstId", "Const")
STATIC == Key("StaticId", "Static")
TRAIT == Key("TraitId", "Trait")
TRAIT_ALIAS == Key("TraitAliasId", "TraitAlias")
TYPE_ALIAS == Key("TypeAliasId", "TypeAlias")
IMPL == Key("ImplId", "Impl")
MACRO_RULES == Key("MacroRulesId", "MacroRules")
PROC_MACRO == Key("ProcMacroId", "Fn")
TUPLE_FIELD == Key("FieldId", "TupleField")
RECORD_FIELD == Key("FieldId", "RecordField")
TYPE_PARAM == Key("TypeOrConstParamId", "TypeParam")
BLOCK == Key("BlockId", "BlockExpr")

\* TypeId of FxHashMap<ID, AstPtr<AST>> and of FxHashMap<AstPtr<AST>, ID>
TagIdToPtr(key) == <<key.id, "AstPtr", key.ast>>
TagPtrToId(key) == <<"AstPtr", key.ast, key.id>>

\* FxHashMap::insert on a backing map
HashInsert(m, k, v) == [x \in (DOMAIN m) \cup {k} |-> IF x = k THEN v ELSE m[x]]

\* map.entry::<T>().or_insert_with(Default::default).insert(k, v)
DynInsert(map, tag, k, v) ==
  IF tag \in DOMAIN map
  THEN [map EXCEPT ![tag] = HashInsert(@, k, v)]
  ELSE [t \in (DOMAIN map) \cup {tag} |->
          IF t = tag THEN HashInsert(EmptyDynMap, k, v) ELSE map[t]]

\* map.get::<T>()?.get(k)
DynGet(map, tag, k, none) ==
  IF tag \notin DOMAIN map THEN none
  ELSE IF k \in DOMAIN map[tag] THEN map[tag][k] ELSE none

\* DefIdPolicy::insert
DefIdPolicy_insert(map, key, id, ptr) == DynInsert(map, TagIdToPtr(key), id, ptr)

\* faulty variant: get reads the backing map of the reverse direction
DefIdPolicy_get_reverse(map, key, id) == DynGet(map, TagPtrToId(key), id, NoPtr)

\* DefIdPolicy::get
DefIdPolicy_get(map, key, id) == DynGet(map, TagIdToPtr(key), id, NoPtr)

\* DefIdPolicy::is_empty
DefIdPolicy_is_empty(map, key) ==
  IF TagPtrToId(key) \in DOMAIN map THEN DOMAIN map[TagPtrToId(key)] = {} ELSE TRUE

\* src_to_def policy: insert and get of the AstPtr -> id direction
AstPtrPolicy_insert(map, key, ptr, id) == DynInsert(map, TagPtrToId(key), ptr, id)
AstPtrPolicy_get(map, key, ptr) == DynGet(map, TagPtrToId(key), ptr, NoDef)

\* ---------------------------------------------------------------------------
\* hir_def::src: HasChildSource
\* ---------------------------------------------------------------------------
Min(a, b) == IF a < b THEN a ELSE b

RECURSIVE SortByCoord(_)
SortByCoord(S) ==
  IF S = {} THEN <<>>
  ELSE LET n == CHOOSE n \in S : \A m \in S : NodeTab[n].coord <= NodeTab[m].coord
       IN  <<n>> \o SortByCoord(S \ {n})

FieldKinds == {"TupleField", "RecordField"}
FieldListKinds == {"RecordFieldList", "TupleFieldList"}

\* the fields of `it.kind()` of a struct, union or variant node, in declaration order
FieldNodesOf(decl) ==
  SortByCoord({ f \in NodeIds :
     /\ NodeTab[f].kind \in FieldKinds
     /\ \/ NodeTab[f].parent = decl
        \/ /\ NodeTab[f].parent \in NodeIds
           /\ NodeTab[NodeTab[f].parent].kind \in FieldListKinds
           /\ NodeTab[NodeTab[f].parent].parent = decl })

\* data::adt::lower_struct with a Trace::new_for_map: one LocalFieldId per
\* declared field, allocated in declaration order, each with its syntax
LowerStructTrace(fields) ==
  [ k \in 0..(Len(fields) - 1) |->
      [side |-> IF NodeTab[fields[k + 1]].kind = "TupleField" THEN "Left" ELSE "Right",
       node |-> fields[k + 1]] ]

\* faulty variant: the fields of an enum variant are taken from the source of its enum
VariantChildSource_enum_source(v) ==
  LET src == CASE v.kind = "EnumVariantId" -> source(Lookup(v).container.def)
               [] v.kind = "StructId" -> source(v)
               [] v.kind = "UnionId" -> source(v)
  IN  [file |-> Lookup(v).file, value |-> LowerStructTrace(FieldNodesOf(src))]

\* impl HasChildSource<LocalFieldId> for VariantId
VariantChildSource(v) ==
  LET src == CASE v.kind = "EnumVariantId" -> source(v)
               [] v.kind = "StructId" -> source(v)
               [] v.kind = "UnionId" -> source(v)
  IN  [file |-> Lookup(v).file, value |-> LowerStructTrace(FieldNodesOf(src))]

\* faulty variant: the first index is not set aside for Self
GenericChildSource_no_self(g, sem, has_list, syn) ==
  LET is_trait == g.kind \in {"TraitId", "TraitAliasId"}
      self_part == IF is_trait
                   THEN [i \in {sem[1]} |-> [side |-> "Right", node |-> source(g)]]
                   ELSE [i \in {} |-> 0]
      n == IF has_list THEN Min(Len(sem), Len(syn)) ELSE 0
      zipped == { sem[i] : i \in 1..n }
  IN  [ idx \in (DOMAIN self_part) \cup zipped |->
          IF \E i \in 1..n : sem[i] = idx
          THEN [side |-> "Left", node |-> syn[CHOOSE i \in 1..n : sem[i] = idx]]
          ELSE self_part[idx] ]

\* impl HasChildSource<LocalTypeOrConstParamId> for GenericDefId
\* sem: the indices generic_params.iter_type_or_consts() yields, in order;
\* has_list, syn: the GenericParamList of file_id_and_params_of and its
\* type_or_const_params()
GenericChildSource(g, sem, has_list, syn) ==
  LET is_trait == g.kind \in {"TraitId", "TraitAliasId"}
      self_part == IF is_trait
                   THEN [i \in {sem[1]} |-> [side |-> "Right", node |-> source(g)]]
                   ELSE [i \in {} |-> 0]
      rest == IF is_trait THEN Tail(sem) ELSE sem
      n == IF has_list THEN Min(Len(rest), Len(syn)) ELSE 0
      zipped == { rest[i] : i \in 1..n }
  IN  [ idx \in (DOMAIN self_part) \cup zipped |->
          IF \E i \in 1..n : rest[i] = idx
          THEN [side |-> "Left", node |-> syn[CHOOSE i \in 1..n : rest[i] = idx]]
          ELSE self_part[idx] ]

\* db.generic_params and file_id_and_params_of for the generic definitions
GenericParamsOf(g) ==
  CASE g.kind = "TraitId" /\ g.name = "T" ->
         [sem |-> <<0, 1>>, has_list |-> TRUE, syn |-> <<"l_tp">>]
    [] g.kind = "TraitAliasId" -> [sem |-> <<0>>, has_list |-> FALSE, syn |-> <<>>]
    [] g.kind = "TypeAliasId" /\ g.name = "TA" ->
         [sem |-> <<0>>, has_list |-> TRUE, syn |-> <<"m_tatp">>]
    [] OTHER -> [sem |-> <<>>, has_list |-> FALSE, syn |-> <<>>]

\* ---------------------------------------------------------------------------
\* ChildContainer::child_by_source
\* ---------------------------------------------------------------------------
KeyOfId(kind) ==
  CASE kind = "StructId" -> STRUCT
    [] kind = "UnionId" -> UNION_
    [] kind = "EnumId" -> ENUM
    [] kind = "EnumVariantId" -> ENUM_VARIANT
    [] kind = "FunctionId" -> FUNCTION
    [] kind = "ConstId" -> CONST
    [] kind = "StaticId" -> STATIC
    [] kind = "TraitId" -> TRAIT
    [] kind = "TraitAliasId" -> TRAIT_ALIAS
    [] kind = "TypeAliasId" -> TYPE_ALIAS
    [] kind = "ImplId" -> IMPL
    [] kind = "MacroRulesId" -> MACRO_RULES

RECURSIVE InsertItems(_, _, _, _, _)
\* the items of one container that are declared in `file`, inserted in item order
InsertItems(map, rows, i, container, file) ==
  IF i > Len(rows) THEN map
  ELSE LET d == DefId(rows[i][2], container.def.crate, rows[i][1], 0)
           loc == Lookup(d)
           hit == loc.container = container /\ loc.file = file
       IN  InsertItems(
             IF hit THEN AstPtrPolicy_insert(map, KeyOfId(d.kind), ast_ptr(loc), d) ELSE map,
             rows, i + 1, container, file)

RECURSIVE InsertFields(_, _, _, _)
InsertFields(map, arena, k, parent) ==
  IF k \notin DOMAIN arena THEN map
  ELSE InsertFields(
         AstPtrPolicy_insert(map,
           IF arena[k].side = "Left" THEN TUPLE_FIELD ELSE RECORD_FIELD,
           AstPtrNew(arena[k].node), DefId("FieldId", parent.crate, parent.name, k)),
         arena, k + 1, parent)

RECURSIVE InsertParams(_, _, _, _)
InsertParams(map, arena, todo, parent) ==
  IF todo = {} THEN map
  ELSE LET idx == CHOOSE i \in todo : \A j \in todo : i <= j
       IN  InsertParams(
             IF arena[idx].side = "Left"
             THEN AstPtrPolicy_insert(map, TYPE_PARAM, AstPtrNew(arena[idx].node),
                    DefId("TypeOrConstParamId", parent.crate, parent.name, idx))
             ELSE map,
             arena, todo \ {idx}, parent)

\* the fields of a variant: child_source, each field under its pointer
FieldsBySource(v, file) ==
  LET cs == VariantChildSource(v)
  IN  IF cs.file = file THEN InsertFields(EmptyDynMap, cs.value, 0, v) ELSE EmptyDynMap

\* a body owner's children; an enum variant is a body owner whose children
\* include its fields, the function k of main has one block with items
BodyBySource(d, file) ==
  IF d.kind = "EnumVariantId" THEN FieldsBySource(d, file)
  ELSE IF d = DefId("FunctionId", "cc", "k", 0) /\ file = "main"
  THEN AstPtrPolicy_insert(EmptyDynMap, BLOCK, AstPtrNew("m_blk"),
                           DefId("BlockId", "cc", "k", 0))
  ELSE EmptyDynMap

\* faulty variant: a trait alias or type alias enumerates its generic parameters
child_by_source_alias_params(container, file) ==
  CASE container.tag \in {"ModuleId", "TraitId", "ImplId", "EnumId"} ->
         InsertItems(EmptyDynMap, ItemRowsOf(container.def.crate), 1, container, file)
    [] container.tag = "VariantId" -> FieldsBySource(container.def, file)
    [] container.tag \in {"GenericDefId", "TraitAliasId", "TypeAliasId"} ->
         LET gp == GenericParamsOf(container.def)
             cs == GenericChildSource(container.def, gp.sem, gp.has_list, gp.syn)
         IN  IF Lookup(container.def).file = file
             THEN InsertParams(EmptyDynMap, cs, DOMAIN cs, container.def)
             ELSE EmptyDynMap
    [] container.tag = "DefWithBodyId" -> BodyBySource(container.def, file)

child_by_source(container, file) ==
  CASE container.tag \in {"ModuleId", "TraitId", "ImplId", "EnumId"} ->
         InsertItems(EmptyDynMap, ItemRowsOf(container.def.crate), 1, container, file)
    [] container.tag = "VariantId" -> FieldsBySource(container.def, file)
    [] container.tag = "GenericDefId" ->
         LET gp == GenericParamsOf(container.def)
             cs == GenericChildSource(container.def, gp.sem, gp.has_list, gp.syn)
         IN  IF Lookup(container.def).file = file
             THEN InsertParams(EmptyDynMap, cs, DOMAIN cs, container.def)
             ELSE EmptyDynMap
    [] container.tag = "DefWithBodyId" -> BodyBySource(container.def, file)
    [] container.tag = "TraitAliasId" -> EmptyDynMap
    [] container.tag = "TypeAliasId" -> EmptyDynMap

\* ---------------------------------------------------------------------------
\* State
\* ---------------------------------------------------------------------------
vars == <<dynmap_cache, expansion_info_cache, file_to_def_cache, computed, served,
          db, crate_order, last, nops, d2s, dlast, dwritten, gin, gout,
          stack, wret, wstart, sess>>

sessionVars == <<dynmap_cache, expansion_info_cache, file_to_def_cache, computed,
                 served, db, crate_order, last, nops>>
dynVars == <<d2s, dlast, dwritten>>
genVars == <<gin, gout>>
walkVars == <<stack, wret, wstart>>

\* the cache as one value, threaded through the nested calls of one handler
Cache == [dm |-> dynmap_cache, ei |-> expansion_info_cache,
          fd |-> file_to_def_cache, cnt |-> computed, hit |-> served]

EmptyCache == [dm |-> EmptyDynMap, ei |-> EmptyDynMap, fd |-> EmptyDynMap,
               cnt |-> EmptyDynMap, hit |-> {}]

\* FxHashMap::entry(k).or_insert_with: extend a map by one absent key
MapWith(m, k, v) == [x \in (DOMAIN m) \cup {k} |-> IF x = k THEN v ELSE m[x]]

\* ---------------------------------------------------------------------------
\* SourceToDefCtx::file_to_def
\* ---------------------------------------------------------------------------
RelevantSet(file) ==
  CASE file = "lib" -> {"ca", "cb"}
    [] file = "main" -> {"cc"}
    [] file = "inc" -> {"ca", "cb", "cc"}
    [] file = "mix" -> {"ca", "cb"}
    [] file = "orph" -> {"ca", "cc"}
    [] OTHER -> {}

\* db.relevant_crates(file)
relevant_crates(file) ==
  LET in_set(c) == c \in RelevantSet(file) IN SelectSeq(crate_order, in_set)

RECURSIVE IncludeModules(_, _, _, _)
\* the include! invocations of crate c that expand into `file`, each mapped to
\* the modules of c that own the original file of the call
IncludeModules(invocs, i, c, file) ==
  IF i > Len(invocs) THEN <<>>
  ELSE (IF invocs[i][2] = file
        THEN ModulesForFile(c, OriginalFile(invocs[i][1]))
        ELSE <<>>) \o IncludeModules(invocs, i + 1, c, file)

RECURSIVE FileToDefLoop(_, _, _, _)

\* faulty variant: n_mods is taken once, before the loop over the crates
FileToDefLoop_hoisted(crates, i, mods, file) ==
  IF i > Len(crates) THEN mods
  ELSE LET c == crates[i]
           mods1 == mods \o ModulesForFile(c, file)
           mods2 == IF Len(mods1) = 0
                    THEN mods1 \o IncludeModules(IncludeMacroInvoc(c), 1, c, file)
                    ELSE mods1
       IN  FileToDefLoop(crates, i + 1, mods2, file)

\* faulty variant: a crate that has no module for the file contributes its root module
FileToDefLoop_crate_root(crates, i, mods, file) ==
  IF i > Len(crates) THEN mods
  ELSE LET c == crates[i]
           n_mods == Len(mods)
           mods1 == mods \o ModulesForFile(c, file)
           mods2 == IF Len(mods1) = n_mods
                    THEN mods1 \o IncludeModules(IncludeMacroInvoc(c), 1, c, file)
                    ELSE mods1
           mods3 == IF Len(mods2) = n_mods THEN mods2 \o <<ModuleId(c, "root")>> ELSE mods2
       IN  FileToDefLoop(crates, i + 1, mods3, file)

\* faulty variant: the include! invocations are searched for every crate
FileToDefLoop_always_include(crates, i, mods, file) ==
  IF i > Len(crates) THEN mods
  ELSE LET c == crates[i]
           mods1 == mods \o ModulesForFile(c, file)
           mods2 == mods1 \o IncludeModules(IncludeMacroInvoc(c), 1, c, file)
       IN  FileToDefLoop(crates, i + 1, mods2, file)

\* the body of `for &crate_id in relevant_crates(file)`
FileToDefLoop(crates, i, mods, file) ==
  IF i > Len(crates) THEN mods
  ELSE LET c == crates[i]
           n_mods == Len(mods)
           mods1 == mods \o ModulesForFile(c, file)
           mods2 == IF Len(mods1) = n_mods
                    THEN mods1 \o IncludeModules(IncludeMacroInvoc(c), 1, c, file)
                    ELSE mods1
       IN  FileToDefLoop(crates, i + 1, mods2, file)

\* faulty variant: a miss replaces the index by the entry of the queried file
file_to_def_replace(st, file) ==
  IF file \in DOMAIN st.fd
  THEN [st |-> st, res |-> st.fd[file]]
  ELSE LET mods == FileToDefLoop(relevant_crates(file), 1, <<>>, file)
       IN  [st |-> [st EXCEPT !.fd = [f \in {file} |-> mods]], res |-> mods]

file_to_def(st, file) ==
  IF file \in DOMAIN st.fd
  THEN [st |-> st, res |-> st.fd[file]]
  ELSE LET mods == FileToDefLoop(relevant_crates(file), 1, <<>>, file)
       IN  [st |-> [st EXCEPT !.fd = MapWith(st.fd, file, mods)], res |-> mods]

\* .first().copied()
\* faulty variant: the module found last is taken
First_last(mods) == IF mods = <<>> THEN NoDef ELSE mods[Len(mods)]

First(mods) == IF mods = <<>> THEN NoDef ELSE mods[1]

\* ---------------------------------------------------------------------------
\* SourceToDefCtx: cache_for, ancestors_with_macros, find_container, to_def
\* ---------------------------------------------------------------------------
\* faulty variant: the entry is keyed by the container alone
cache_for_container_key(st, container, file) ==
  LET key == <<container, NoFile>>
  IN  IF key \in DOMAIN st.dm
      THEN [st |-> [st EXCEPT !.hit = @ \cup {key}], res |-> st.dm[key]]
      ELSE LET m == child_by_source(container, file)
           IN  [st |-> [st EXCEPT !.dm = MapWith(st.dm, key, m),
                                  !.cnt = MapWith(st.cnt, key,
                                     (IF key \in DOMAIN st.cnt THEN st.cnt[key] ELSE 0) + 1)],
                res |-> m]

\* faulty variant: the entry is keyed by the original file and written on every call
cache_for_overwrite(st, container, file) ==
  LET key == <<container, OriginalFile(file)>>
      m == child_by_source(container, file)
  IN  [st |-> [st EXCEPT !.dm = MapWith(st.dm, key, m),
                         !.cnt = MapWith(st.cnt, key, 1)],
       res |-> m]

\* faulty variant: insert instead of entry().or_insert_with(): recomputed on every call
cache_for_recompute(st, container, file) ==
  LET key == <<container, file>>
      m == child_by_source(container, file)
  IN  [st |-> [st EXCEPT !.dm = MapWith(st.dm, key, m),
                         !.cnt = MapWith(st.cnt, key,
                            (IF key \in DOMAIN st.cnt THEN st.cnt[key] ELSE 0) + 1),
                         !.hit = IF key \in DOMAIN st.dm THEN @ \cup {key} ELSE @],
       res |-> m]

cache_for(st, container, file) ==
  LET key == <<container, file>>
  IN  IF key \in DOMAIN st.dm
      THEN [st |-> [st EXCEPT !.hit = @ \cup {key}], res |-> st.dm[key]]
      ELSE LET m == child_by_source(container, file)
           IN  [st |-> [st EXCEPT !.dm = MapWith(st.dm, key, m),
                                  !.cnt = MapWith(st.cnt, key,
                                     (IF key \in DOMAIN st.cnt THEN st.cnt[key] ELSE 0) + 1)],
                res |-> m]

\* faulty variant: the walk stops at the root of an expansion
parent_stops_at_expansion(st, n) ==
  [st |-> st, res |-> NodeTab[n].parent]

\* faulty variant: at the root of an expansion the argument site itself is next
parent_offers_arg(st, n) ==
  IF NodeTab[n].parent # NoNode
  THEN [st |-> st, res |-> NodeTab[n].parent]
  ELSE IF ~IsMacroFile(NodeTab[n].file)
  THEN [st |-> st, res |-> NoNode]
  ELSE LET mf == NodeTab[n].file
           st1 == IF mf \in DOMAIN st.ei THEN st
                  ELSE [st EXCEPT !.ei = MapWith(st.ei, mf, ExpansionInfoOf(mf))]
       IN  [st |-> st1, res |-> st1.ei[mf].arg]

\* the `parent` closure of ancestors_with_macros
parent(st, n) ==
  IF NodeTab[n].parent # NoNode
  THEN [st |-> st, res |-> NodeTab[n].parent]
  ELSE IF ~IsMacroFile(NodeTab[n].file)
  THEN [st |-> st, res |-> NoNode]
  ELSE LET mf == NodeTab[n].file
           st1 == IF mf \in DOMAIN st.ei THEN st
                  ELSE [st EXCEPT !.ei = MapWith(st.ei, mf, ExpansionInfoOf(mf))]
           arg == st1.ei[mf].arg
       IN  [st |-> st1, res |-> IF arg = NoNode THEN NoNode ELSE NodeTab[arg].parent]

\* the arms of container_to_def that resolve the node with to_def: the items
\* Trait .. Const, and ast::Variant
ContainerKinds == {"Trait", "TraitAlias", "Impl", "Enum", "TypeAlias", "Struct", "Union",
                   "Fn", "Static", "Const", "Variant"}

\* faulty variant: a struct or union is wrapped as the generic-parameter container
ContainerTag_generic(kind) ==
  CASE kind = "Trait" -> "TraitId"
    [] kind = "TraitAlias" -> "TraitAliasId"
    [] kind = "Impl" -> "ImplId"
    [] kind = "Enum" -> "EnumId"
    [] kind = "TypeAlias" -> "TypeAliasId"
    [] kind \in {"Struct", "Union"} -> "GenericDefId"
    [] kind \in {"Fn", "Static", "Const", "Variant"} -> "DefWithBodyId"

\* the ChildContainer an arm wraps the resolved def in
ContainerTag(kind) ==
  CASE kind = "Trait" -> "TraitId"
    [] kind = "TraitAlias" -> "TraitAliasId"
    [] kind = "Impl" -> "ImplId"
    [] kind = "Enum" -> "EnumId"
    [] kind = "TypeAlias" -> "TypeAliasId"
    [] kind \in {"Struct", "Union"} -> "VariantId"
    [] kind \in {"Fn", "Static", "Const", "Variant"} -> "DefWithBodyId"

\* the *_to_def wrapper an arm calls, by the key the wrapper uses
ContainerKey(kind) ==
  CASE kind = "Trait" -> TRAIT
    [] kind = "TraitAlias" -> TRAIT_ALIAS
    [] kind = "Impl" -> IMPL
    [] kind = "Enum" -> ENUM
    [] kind = "TypeAlias" -> TYPE_ALIAS
    [] kind = "Struct" -> STRUCT
    [] kind = "Union" -> UNION_
    [] kind = "Fn" -> FUNCTION
    [] kind = "Static" -> STATIC
    [] kind = "Const" -> CONST
    [] kind = "Variant" -> ENUM_VARIANT

Found(tag, r) ==
  [st |-> r.st,
   res |-> IF r.res = NoDef THEN NoFound ELSE [tag |-> tag, def |-> r.res, node |-> NoNode]]

RECURSIVE to_def(_, _, _)
RECURSIVE find_container(_, _)
RECURSIVE ancestors_with_macros(_, _, _)
RECURSIVE container_to_def_by(_, _, _)
RECURSIVE module_to_def(_, _)

\* faulty variant: a union counts as a generic-parameter container
ItemArms_union(cb) ==
  CASE cb = "generic_param" ->
         {"Fn", "Struct", "Enum", "Trait", "TraitAlias", "TypeAlias", "Impl", "Union"}
    [] cb = "pat_or_label" -> {"Fn", "Const", "Static", "Variant"}

\* the kinds the callbacks of find_generic_param_container and
\* find_pat_or_label_container resolve; every other node yields None
ItemArms(cb) ==
  CASE cb = "generic_param" ->
         {"Fn", "Struct", "Enum", "Trait", "TraitAlias", "TypeAlias", "Impl"}
    [] cb = "pat_or_label" -> {"Fn", "Const", "Static", "Variant"}

\* the callbacks the callers pass to ancestors_with_macros
Callback(st, n, cb) ==
  CASE cb = "module_or_block" ->
         [st |-> st,
          res |-> IF NodeTab[n].kind \in {"Module", "BlockExpr"}
                  THEN [tag |-> NodeTab[n].kind, def |-> NoDef, node |-> n]
                  ELSE NoFound]
    [] OTHER -> container_to_def_by(st, n, cb)

ancestors_with_macros(st, node, cb) ==
  LET Visit(p, r) ==
        IF r.res # NoFound THEN r ELSE ancestors_with_macros(r.st, p.res, cb)
      Step(p) ==
        IF p.res = NoNode THEN [st |-> p.st, res |-> NoFound]
        ELSE Visit(p, Callback(p.st, p.res, cb))
  IN  Step(parent(st, node))

find_container(st, n) ==
  LET Fallback(f) ==
        [st |-> f.st,
         res |-> IF First(f.res) = NoDef THEN NoContainer
                 ELSE [tag |-> "ModuleId", def |-> First(f.res)]]
      Pick(a) ==
        IF a.res # NoFound
        THEN [st |-> a.st, res |-> [tag |-> a.res.tag, def |-> a.res.def]]
        ELSE Fallback(file_to_def(a.st, OriginalFile(NodeTab[n].file)))
  IN  Pick(ancestors_with_macros(st, n, "container_to_def"))

\* faulty variant: the map is asked for the original file instead of the node's file
to_def_original_file(st, n, key) ==
  LET Get(m) == [st |-> m.st, res |-> AstPtrPolicy_get(m.res, key, AstPtrNew(n))]
      In(c) == IF c.res = NoContainer THEN [st |-> c.st, res |-> NoDef]
               ELSE Get(cache_for(c.st, c.res, OriginalFile(NodeTab[n].file)))
  IN  In(find_container(st, n))

\* faulty variant: the container is unwrapped; a node without container ends
\* the call with a panic
to_def_unwrap(st, n, key) ==
  LET Get(m) == [st |-> m.st, res |-> AstPtrPolicy_get(m.res, key, AstPtrNew(n))]
      In(c) == IF c.res = NoContainer
               THEN [st |-> c.st, res |-> [NoDef EXCEPT !.kind = "panic"]]
               ELSE Get(cache_for(c.st, c.res, NodeTab[n].file))
  IN  In(find_container(st, n))

\* dyn_map followed by the lookup of the node's pointer under `key`
to_def(st, n, key) ==
  LET Get(m) == [st |-> m.st, res |-> AstPtrPolicy_get(m.res, key, AstPtrNew(n))]
      In(c) == IF c.res = NoContainer THEN [st |-> c.st, res |-> NoDef]
               ELSE Get(cache_for(c.st, c.res, NodeTab[n].file))
  IN  In(find_container(st, n))

\* faulty variant: an enclosing block is ignored, the file's module is the parent
module_to_def_no_block(st, n) ==
  LET Child(pm) ==
        IF pm.res = NoDef THEN pm
        ELSE IF ModName(n) = "none" THEN [st |-> pm.st, res |-> NoDef]
        ELSE [st |-> pm.st, res |-> ModuleChild(pm.res, ModName(n))]
      OfFile(f) == [st |-> f.st, res |-> First(f.res)]
      Parent(pd) ==
        CASE pd.res.tag = "Module" -> module_to_def(pd.st, pd.res.node)
          [] OTHER -> OfFile(file_to_def(pd.st, OriginalFile(NodeTab[n].file)))
      Resolve(pd) == Child(Parent(pd))
  IN  Resolve(ancestors_with_macros(st, n, "module_or_block"))

\* db.block_def_map(block).root_module_id()
BlockRootModule(b) == ModuleId(b.crate, b.name)

module_to_def(st, n) ==
  LET Child(pm) ==
        IF pm.res = NoDef THEN pm
        ELSE IF ModName(n) = "none" THEN [st |-> pm.st, res |-> NoDef]
        ELSE [st |-> pm.st, res |-> ModuleChild(pm.res, ModName(n))]
      OfBlock(b) ==
        [st |-> b.st, res |-> IF b.res = NoDef THEN NoDef ELSE BlockRootModule(b.res)]
      OfFile(f) == [st |-> f.st, res |-> First(f.res)]
      Parent(pd) ==
        CASE pd.res.tag = "BlockExpr" -> OfBlock(to_def(pd.st, pd.res.node, BLOCK))
          [] pd.res.tag = "Module" -> module_to_def(pd.st, pd.res.node)
          [] OTHER -> OfFile(file_to_def(pd.st, OriginalFile(NodeTab[n].file)))
      Resolve(pd) == Child(Parent(pd))
  IN  Resolve(ancestors_with_macros(st, n, "module_or_block"))

\* the match over the candidate: container_to_def, and the closures of
\* find_generic_param_container and find_pat_or_label_container, which resolve
\* the kinds of ItemArms and wrap the def in their own id type
container_to_def_by(st, n, cb) ==
  LET kind == NodeTab[n].kind
  IN  IF kind = "Module" /\ cb = "container_to_def"
      THEN Found("ModuleId", module_to_def(st, n))
      ELSE IF kind \in (IF cb = "container_to_def" THEN ContainerKinds ELSE ItemArms(cb))
      THEN Found(CASE cb = "container_to_def" -> ContainerTag(kind)
                   [] cb = "generic_param" -> "GenericDefId"
                   [] cb = "pat_or_label" -> "DefWithBodyId",
                 to_def(st, n, ContainerKey(kind)))
      ELSE [st |-> st, res |-> NoFound]

container_to_def(st, n) == container_to_def_by(st, n, "container_to_def")

\* the container of the walk's hit, NoContainer without one
Hit(a) ==
  [st |-> a.st,
   res |-> IF a.res = NoFound THEN NoContainer ELSE [tag |-> a.res.tag, def |-> a.res.def]]

\* find_generic_param_container and find_pat_or_label_container: the walk with
\* the callback of either
find_container_with(st, n, cb) == Hit(ancestors_with_macros(st, n, cb))

\* the walk an entry point starts: type, lifetime and const parameters look
\* for a generic-parameter container, patterns, self parameters and labels
\* for a body owner
FindCallbackOf(kind) == IF kind = "TypeParam" THEN "generic_param" ELSE "pat_or_label"

\* type_param_to_def, c being what its find_generic_param_container call
\* returned: the parameter's pointer in the child map of the container
type_param_to_def(c, n) ==
  LET Get(m) ==
        [st |-> m.st, cont |-> c.res, res |-> AstPtrPolicy_get(m.res, TYPE_PARAM, AstPtrNew(n))]
  IN  IF c.res = NoContainer THEN [st |-> c.st, cont |-> NoContainer, res |-> NoDef]
      ELSE Get(cache_for(c.st, c.res, NodeTab[n].file))

NoBinding == 0 - 1

\* db.body_with_source_map of a body owner: the pattern ids of the pattern
\* nodes, the pattern stored under each id, the binding of `self`, the label
\* ids of the label nodes
BodyWithSourceMap(d) ==
  CASE d = DefId("FunctionId", "cc", "k", 0) ->
         [node_pat |-> [n \in {"m_kpat", "m_kcon"} |-> IF n = "m_kpat" THEN 1 ELSE 2],
          pats |-> <<[kind |-> "Bind", id |-> 0], [kind |-> "Path", id |-> NoBinding]>>,
          self_param |-> NoBinding,
          node_label |-> [n \in {"m_klab"} |-> 0]]
    [] d = DefId("FunctionId", "cc", "h", 0) ->
         [node_pat |-> [n \in {"a_pat"} |-> 1],
          pats |-> <<[kind |-> "Bind", id |-> 1]>>,
          self_param |-> 0,
          node_label |-> [n \in {} |-> 0]]
    [] d = DefId("ConstId", "cc", "C", 0) ->
         [node_pat |-> [n \in {"m_cpat"} |-> 1],
          pats |-> <<[kind |-> "Bind", id |-> 0]>>,
          self_param |-> NoBinding,
          node_label |-> [n \in {} |-> 0]]
    [] d = DefId("EnumVariantId", "cc", "V", 0) ->
         [node_pat |-> [n \in {"m_vpat"} |-> 1],
          pats |-> <<[kind |-> "Wild", id |-> NoBinding]>>,
          self_param |-> NoBinding,
          node_label |-> [n \in {} |-> 0]]
    [] OTHER ->
         [node_pat |-> [n \in {} |-> 0], pats |-> <<>>, self_param |-> NoBinding,
          node_label |-> [n \in {} |-> 0]]

BindingId(c, id) == DefId("BindingId", c.def.crate, c.def.name, id)

\* faulty variant: the pattern stored under the id is not inspected
bind_pat_to_def_any_pat(c, n) ==
  LET Bound(body) ==
        IF n \notin DOMAIN body.node_pat THEN NoDef
        ELSE BindingId(c.res, body.pats[body.node_pat[n]].id)
  IN  [st |-> c.st, cont |-> c.res,
       res |-> IF c.res = NoContainer THEN NoDef ELSE Bound(BodyWithSourceMap(c.res.def))]

\* bind_pat_to_def, c being what its find_pat_or_label_container call returned
bind_pat_to_def(c, n) ==
  LET Bound(body) ==
        IF n \notin DOMAIN body.node_pat THEN NoDef
        ELSE IF body.pats[body.node_pat[n]].kind = "Bind"
        THEN BindingId(c.res, body.pats[body.node_pat[n]].id)
        ELSE NoDef
  IN  [st |-> c.st, cont |-> c.res,
       res |-> IF c.res = NoContainer THEN NoDef ELSE Bound(BodyWithSourceMap(c.res.def))]

self_param_to_def(c, n) ==
  LET Bound(body) ==
        IF body.self_param = NoBinding THEN NoDef ELSE BindingId(c.res, body.self_param)
  IN  [st |-> c.st, cont |-> c.res,
       res |-> IF c.res = NoContainer THEN NoDef ELSE Bound(BodyWithSourceMap(c.res.def))]

label_to_def(c, n) ==
  LET Bound(body) ==
        IF n \notin DOMAIN body.node_label THEN NoDef
        ELSE DefId("LabelId", c.res.def.crate, c.res.def.name, body.node_label[n])
  IN  [st |-> c.st, cont |-> c.res,
       res |-> IF c.res = NoContainer THEN NoDef ELSE Bound(BodyWithSourceMap(c.res.def))]

\* ---------------------------------------------------------------------------
\* The session: one action per entry point of SourceToDefCtx
\* ---------------------------------------------------------------------------
\* the key each per-kind wrapper (fn_to_def, struct_to_def, ...) passes to to_def
WrapperKey(kind) ==
  CASE kind = "Trait" -> TRAIT
    [] kind = "TraitAlias" -> TRAIT_ALIAS
    [] kind = "Impl" -> IMPL
    [] kind = "Fn" -> FUNCTION
    [] kind = "Struct" -> STRUCT
    [] kind = "Enum" -> ENUM
    [] kind = "Union" -> UNION_
    [] kind = "Static" -> STATIC
    [] kind = "Const" -> CONST
    [] kind = "TypeAlias" -> TYPE_ALIAS
    [] kind = "RecordField" -> RECORD_FIELD
    [] kind = "TupleField" -> TUPLE_FIELD
    [] kind = "Variant" -> ENUM_VARIANT
    [] kind = "MacroRules" -> MACRO_RULES

WrapperKinds == {"Trait", "TraitAlias", "Impl", "Fn", "Struct", "Enum", "Union", "Static",
                 "Const", "TypeAlias", "RecordField", "TupleField", "Variant", "MacroRules"}

NoCall == [op |-> "none", node |-> NoNode, file |-> NoFile, def |-> NoDef,
           cont |-> NoContainer, mods |-> <<>>]

Commit(st) ==
  /\ dynmap_cache' = st.dm
  /\ expansion_info_cache' = st.ei
  /\ file_to_def_cache' = st.fd
  /\ computed' = st.cnt
  /\ served' = st.hit
  /\ nops' = nops + 1
  /\ UNCHANGED <<db, crate_order, dynVars, genVars, walkVars, sess>>

\* trait_to_def, fn_to_def, struct_to_def, record_field_to_def, ...
ToDefCall(n) ==
  /\ nops < MaxOps
  /\ NodeTab[n].kind \in WrapperKinds
  /\ LET Return(r) ==
           /\ Commit(r.st)
           /\ last' = [NoCall EXCEPT !.op = "to_def", !.node = n, !.def = r.res]
     IN  Return(to_def(Cache, n, WrapperKey(NodeTab[n].kind)))

ModuleToDefCall(n) ==
  /\ nops < MaxOps
  /\ NodeTab[n].kind = "Module"
  /\ LET Return(r) ==
           /\ Commit(r.st)
           /\ last' = [NoCall EXCEPT !.op = "module_to_def", !.node = n, !.def = r.res]
     IN  Return(module_to_def(Cache, n))

\* source_file_to_def
SourceFileToDefCall(n) ==
  /\ nops < MaxOps
  /\ NodeTab[n].kind = "SourceFile"
  /\ LET Return(f) ==
           /\ Commit(f.st)
           /\ last' = [NoCall EXCEPT !.op = "source_file_to_def", !.node = n,
                                      !.def = First(f.res)]
     IN  Return(file_to_def(Cache, OriginalFile(NodeTab[n].file)))

FindContainerCall(n) ==
  /\ nops < MaxOps
  /\ LET Return(r) ==
           /\ Commit(r.st)
           /\ last' = [NoCall EXCEPT !.op = "find_container", !.node = n, !.cont = r.res]
     IN  Return(find_container(Cache, n))

\* type_param_to_def, bind_pat_to_def, self_param_to_def, label_to_def; the
\* container the call worked with is recorded beside the answer
ParamOrPatCall(n) ==
  /\ nops < MaxOps
  /\ NodeTab[n].kind \in {"TypeParam", "IdentPat", "SelfParam", "Label"}
  /\ LET Answer(c) ==
           CASE NodeTab[n].kind = "TypeParam" -> type_param_to_def(c, n)
             [] NodeTab[n].kind = "IdentPat" -> bind_pat_to_def(c, n)
             [] NodeTab[n].kind = "SelfParam" -> self_param_to_def(c, n)
             [] NodeTab[n].kind = "Label" -> label_to_def(c, n)
         OpOf(kind) ==
           CASE kind = "TypeParam" -> "type_param_to_def"
             [] kind = "IdentPat" -> "bind_pat_to_def"
             [] kind = "SelfParam" -> "self_param_to_def"
             [] kind = "Label" -> "label_to_def"
         Return(r) ==
           /\ Commit(r.st)
           /\ last' = [NoCall EXCEPT !.op = OpOf(NodeTab[n].kind), !.node = n,
                                      !.def = r.res, !.cont = r.cont]
     IN  Return(Answer(find_container_with(Cache, n, FindCallbackOf(NodeTab[n].kind))))

FileToDefCall(f) ==
  /\ nops < MaxOps
  /\ LET Return(r) ==
           /\ Commit(r.st)
           /\ last' = [NoCall EXCEPT !.op = "file_to_def", !.file = f, !.mods = r.res]
     IN  Return(file_to_def(Cache, f))

\* the nodes find_container is called on directly
FindNodes == {"x_fn", "x_mc", "y_st", "y_f", "a_fn", "z_fn", "m_tt", "x_tt", "m_att", "m_mc",
              "l_st", "l_fa", "l_tp", "i_fn", "d_fn", "m_vf", "m_va", "m_uf"}

CrateOrders == { <<"ca", "cb", "cc">>, <<"cb", "ca", "cc">> }

NoDynCall == [op |-> "none", key |-> STRUCT, id |-> NoDef, ptr |-> NoPtr,
              prev |-> NoPtr, empty |-> TRUE, ran |-> FALSE, arg |-> NoPtr, file |-> NoFile]
NoGenInput == [def |-> NoDef, sem |-> <<>>, has_list |-> FALSE, syn |-> <<>>]

InitSession ==
  /\ dynmap_cache = EmptyDynMap
  /\ expansion_info_cache = EmptyDynMap
  /\ file_to_def_cache = EmptyDynMap
  /\ computed = EmptyDynMap
  /\ served = {}
  /\ db = Database
  /\ crate_order \in CrateOrders
  /\ last = NoCall
  /\ nops = 0

InitDyn ==
  /\ d2s = EmptyDynMap
  /\ dlast = NoDynCall
  /\ dwritten = EmptyDynMap

InitGen ==
  /\ gin = NoGenInput
  /\ gout = [done |-> FALSE, value |-> EmptyDynMap]

NoReturn == [has |-> FALSE, val |-> NoContainer]
NoStart == [fn |-> "none", node |-> NoNode]

InitWalk ==
  /\ stack = <<>>
  /\ wret = NoReturn
  /\ wstart = NoStart

\* the sessions besides the one above: each SourceToDefCtx borrows the cache of
\* its own Semantics
Sessions == {1, 2}

InitSess ==
  sess = [s \in Sessions |-> [cache |-> EmptyCache, last |-> NoCall, hist |-> <<>>]]

Init == InitSession /\ InitDyn /\ InitGen /\ InitWalk /\ InitSess

Next ==
  \/ \E n \in NodeIds : ToDefCall(n)
  \/ \E n \in NodeIds : ModuleToDefCall(n)
  \/ \E n \in FindNodes : FindContainerCall(n)
  \/ \E f \in RealFiles : FileToDefCall(f)
  \/ \E n \in NodeIds : SourceFileToDefCall(n)

Spec == Init /\ [][Next]_vars

\* a session that resolves generic parameters, patterns, self parameters and
\* labels, and items around them
ResolveNodes == {"m_att", "a_fn", "m_tafn", "m_trafn", "y_f", "m_fn", "m_va"}

NextResolve ==
  \/ \E n \in ResolveNodes : ToDefCall(n)
  \/ \E n \in NodeIds : ParamOrPatCall(n)

SpecResolve == Init /\ [][NextResolve]_vars

\* ---------------------------------------------------------------------------
\* DefToSrcCacheContext over one DynMap
\* ---------------------------------------------------------------------------
DynKeys == {STRUCT, TUPLE_FIELD, RECORD_FIELD}

IdsFor(key) ==
  IF key.id = "StructId"
  THEN {DefId("StructId", "ca", "S", 0), DefId("StructId", "cc", "Q", 0)}
  ELSE {DefId("FieldId", "ca", "S", 0), DefId("FieldId", "ca", "S", 1)}

PtrsFor(key) == {<<key.ast, 1>>, <<key.ast, 2>>}

\* DefToSrcCacheContext::insert_with, f(key) yielding ptr
InsertWithCall(key, id, ptr) ==
  /\ d2s' = DefIdPolicy_insert(d2s, key, id, ptr)
  /\ dwritten' = HashInsert(dwritten, <<key, id>>, ptr)
  /\ dlast' = [NoDynCall EXCEPT !.op = "insert_with", !.key = key, !.id = id, !.ptr = ptr,
                 !.ran = TRUE, !.arg = ptr,
                 !.prev = IF <<key, id>> \in DOMAIN dwritten
                          THEN dwritten[<<key, id>>] ELSE NoPtr]
  /\ UNCHANGED <<sessionVars, genVars, walkVars, sess>>

\* DefToSrcCacheContext::get
GetCall(key, id) ==
  /\ dlast' = [NoDynCall EXCEPT !.op = "get", !.key = key, !.id = id,
                 !.ptr = DefIdPolicy_get(d2s, key, id)]
  /\ UNCHANGED <<d2s, dwritten, sessionVars, genVars, walkVars, sess>>

\* faulty variant: the computation is evaluated and stored before the lookup
\* is inspected (unwrap_or in place of unwrap_or_else)
get_insert_with_eager(map, key, id, ptr) ==
  [map |-> DefIdPolicy_insert(map, key, id, ptr),
   res |-> IF DefIdPolicy_get(map, key, id) = NoPtr THEN ptr
           ELSE DefIdPolicy_get(map, key, id),
   ran |-> TRUE]

\* get_insert_with / get_or_inset_with: get(..).unwrap_or_else(|| insert_with(..)),
\* f(key) yielding ptr; `ran` tells whether f was called
get_insert_with(map, key, id, ptr) ==
  IF DefIdPolicy_get(map, key, id) = NoPtr
  THEN [map |-> DefIdPolicy_insert(map, key, id, ptr), res |-> ptr, ran |-> TRUE]
  ELSE [map |-> map, res |-> DefIdPolicy_get(map, key, id), ran |-> FALSE]

\* DefToSrcCacheContext::get_insert_with, f(key) yielding ptr
GetInsertWithCall(key, id, ptr) ==
  LET Return(r) ==
        /\ d2s' = r.map
        /\ dwritten' = IF r.ran THEN HashInsert(dwritten, <<key, id>>, ptr) ELSE dwritten
        /\ dlast' = [NoDynCall EXCEPT !.op = "get_insert_with", !.key = key, !.id = id,
                       !.ptr = r.res, !.ran = r.ran, !.arg = ptr,
                       !.prev = IF <<key, id>> \in DOMAIN dwritten
                                THEN dwritten[<<key, id>>] ELSE NoPtr]
        /\ UNCHANGED <<sessionVars, genVars, walkVars, sess>>
  IN  Return(get_insert_with(d2s, key, id, ptr))

\* DefIdPolicy::is_empty on the map
IsEmptyCall(key) ==
  /\ dlast' = [NoDynCall EXCEPT !.op = "is_empty", !.key = key,
                 !.empty = DefIdPolicy_is_empty(d2s, key)]
  /\ UNCHANGED <<d2s, dwritten, sessionVars, genVars, walkVars, sess>>

NextDynMap ==
  \/ \E key \in DynKeys : \E id \in IdsFor(key) : \E ptr \in PtrsFor(key) :
       InsertWithCall(key, id, ptr)
  \/ \E key \in DynKeys : \E id \in IdsFor(key) : GetCall(key, id)
  \/ \E key \in DynKeys : \E id \in IdsFor(key) : \E ptr \in PtrsFor(key) :
       GetInsertWithCall(key, id, ptr)
  \/ \E key \in DynKeys : IsEmptyCall(key)

SpecDynMap == Init /\ [][NextDynMap]_vars

\* ---------------------------------------------------------------------------
\* child_source of the generic definitions
\* ---------------------------------------------------------------------------
GenericDefs == { DefId("TraitId", "ca", "T", 0), DefId("TraitAliasId", "cc", "TRA", 0),
                 DefId("StructId", "ca", "S", 0), DefId("FunctionId", "ca", "f", 0) }

ParamNodes == {"l_tp", "p_b", "p_c"}

\* sequences of distinct parameter nodes of length at most MaxParams
ParamLists ==
  UNION { { q \in [1..n -> ParamNodes] : \A i, j \in 1..n : q[i] = q[j] => i = j } :
          n \in 0..MaxParams }

\* the arena indices 0 .. n-1 in allocation order
Indices(n) == [i \in 1..n |-> i - 1]

\* a trait or trait alias owns Self ahead of the written parameters
SelfCount(g) == IF g.kind \in {"TraitId", "TraitAliasId"} THEN 1 ELSE 0

\* a function may own parameters that no list writes (impl Trait arguments)
Unwritten(g) == IF g.kind = "FunctionId" THEN {0, 1} ELSE {0}

\* what db.generic_params and file_id_and_params_of can hand to child_source
GenInputsOf(g, has_list) ==
  { [def |-> g, sem |-> Indices(SelfCount(g) + Len(syn) + more),
     has_list |-> has_list, syn |-> syn] :
      more \in Unwritten(g), syn \in { q \in ParamLists : has_list \/ q = <<>> } }

GenInputs == UNION { GenInputsOf(g, has_list) : g \in GenericDefs, has_list \in BOOLEAN }

InitChild ==
  /\ InitSession
  /\ InitDyn
  /\ gin \in GenInputs
  /\ gout = [done |-> FALSE, value |-> EmptyDynMap]
  /\ InitWalk
  /\ InitSess

ChildSourceCall ==
  /\ ~gout.done
  /\ gout' = [done |-> TRUE,
               value |-> GenericChildSource(gin.def, gin.sem, gin.has_list, gin.syn)]
  /\ UNCHANGED <<gin, sessionVars, dynVars, walkVars, sess>>

NextChild == ChildSourceCall

SpecChild == InitChild /\ [][NextChild]_vars

\* ---------------------------------------------------------------------------
\* One resolve call, frame by frame.  find_container and module_to_def each
\* run one ancestors_with_macros walk; a candidate the callback resolves with
\* to_def or module_to_def is a nested call, which starts a walk of its own.
\* The frames follow a call the session has answered before, so each lookup
\* is served from the three caches, which stay as they are.
\* ---------------------------------------------------------------------------
Frame(fn, n) == [fn |-> fn, node |-> n, cur |-> n]
Top == stack[Len(stack)]
Pop == SubSeq(stack, 1, Len(stack) - 1)
Advance(p) == [stack EXCEPT ![Len(stack)].cur = p]

\* faulty variant: the walk offers the node it stands on
WalkParent_self(f) == f.cur

\* faulty variant: the walk offers its starting node before the ancestors
WalkParent_from_start(f) ==
  IF f.cur = f.node /\ NodeTab[f.node].kind \in ContainerKinds \cup {"Module"}
  THEN f.node
  ELSE parent(Cache, f.cur).res

\* `while let Some(parent) = parent(self, node.as_ref())`
WalkParent(f) == parent(Cache, f.cur).res

\* the call the callback of frame f makes for candidate p
CalleeOf(f, p) ==
  CASE f.fn = "find_container" /\ NodeTab[p].kind = "Module" -> "module_to_def"
    [] f.fn = "find_container" /\ NodeTab[p].kind \in ContainerKinds -> "find_container"
    [] f.fn = "module_to_def" /\ NodeTab[p].kind = "Module" -> "module_to_def"
    [] f.fn = "module_to_def" /\ NodeTab[p].kind = "BlockExpr" -> "find_container"
    [] OTHER -> "none"

\* file_to_def(original file).first()
FileModule(f) == First(file_to_def(Cache, OriginalFile(NodeTab[f.node].file)).res)

AsModule(m) == IF m = NoDef THEN NoContainer ELSE [tag |-> "ModuleId", def |-> m]

\* the child of the parent module that the declaration f.node names
ChildModule(f, pm) ==
  IF pm = NoDef \/ ModName(f.node) = "none" THEN NoDef ELSE ModuleChild(pm, ModName(f.node))

\* to_def(p) once its find_container has returned container c
Looked(c, p, key) ==
  IF c = NoContainer THEN NoDef
  ELSE AstPtrPolicy_get(cache_for(Cache, c, NodeTab[p].file).res, key, AstPtrNew(p))

\* what container_to_def(p) yields once the nested call has returned c
Yield(c, p) ==
  LET Wrap(d) == IF d = NoDef THEN NoContainer
                 ELSE [tag |-> ContainerTag(NodeTab[p].kind), def |-> d]
  IN  IF NodeTab[p].kind = "Module" THEN c
      ELSE Wrap(Looked(c, p, ContainerKey(NodeTab[p].kind)))

\* the parent module module_to_def gets once the nested call has returned c
ParentModule(c, p) ==
  LET Root(b) == IF b = NoDef THEN NoDef ELSE BlockRootModule(b)
  IN  IF NodeTab[p].kind = "Module"
      THEN (IF c = NoContainer THEN NoDef ELSE c.def)
      ELSE Root(Looked(c, p, BLOCK))

\* faulty variant: find_container walks on after a candidate has resolved
Returned_walks_on(f, y) ==
  IF f.fn = "module_to_def" THEN [pop |-> TRUE, val |-> AsModule(ChildModule(f, y))]
  ELSE [pop |-> FALSE, val |-> y]

\* the frame on top with the answer of its nested call taken in
Returned(f, y) ==
  IF f.fn = "module_to_def" THEN [pop |-> TRUE, val |-> AsModule(ChildModule(f, y))]
  ELSE [pop |-> y # NoContainer, val |-> y]

\* the walk has run out of ancestors: the frame returns its fallback
WalkEnd ==
  /\ stack # <<>> /\ ~wret.has
  /\ WalkParent(Top) = NoNode
  /\ wret' = [has |-> TRUE,
              val |-> IF Top.fn = "find_container" THEN AsModule(FileModule(Top))
                      ELSE AsModule(ChildModule(Top, FileModule(Top)))]
  /\ stack' = Pop
  /\ UNCHANGED <<wstart, sessionVars, dynVars, genVars, sess>>

\* the callback yields nothing for the candidate without a nested call
WalkSkip ==
  /\ stack # <<>> /\ ~wret.has
  /\ WalkParent(Top) # NoNode
  /\ CalleeOf(Top, WalkParent(Top)) = "none"
  /\ stack' = Advance(WalkParent(Top))
  /\ UNCHANGED <<wret, wstart, sessionVars, dynVars, genVars, sess>>

\* the callback resolves the candidate: a nested call
WalkCall ==
  /\ stack # <<>> /\ ~wret.has
  /\ Len(stack) < MaxDepth
  /\ WalkParent(Top) # NoNode
  /\ CalleeOf(Top, WalkParent(Top)) # "none"
  /\ stack' = Append(stack, Frame(CalleeOf(Top, WalkParent(Top)), WalkParent(Top)))
  /\ UNCHANGED <<wret, wstart, sessionVars, dynVars, genVars, sess>>

\* the nested call has returned: the caller ends with the answer or walks on
WalkReturn ==
  /\ stack # <<>> /\ wret.has
  /\ LET Take(r) ==
           /\ stack' = IF r.pop THEN Pop ELSE Advance(WalkParent(Top))
           /\ wret' = IF r.pop THEN [has |-> TRUE, val |-> r.val] ELSE NoReturn
     IN  Take(Returned(Top, IF Top.fn = "module_to_def"
                            THEN ParentModule(wret.val, WalkParent(Top))
                            ELSE Yield(wret.val, WalkParent(Top))))
  /\ UNCHANGED <<wstart, sessionVars, dynVars, genVars, sess>>

\* the call the session has just answered is made again, and followed frame by
\* frame
WalkBegin ==
  /\ stack = <<>> /\ wstart = NoStart
  /\ last.op \in {"find_container", "module_to_def"}
  /\ wstart' = [fn |-> last.op, node |-> last.node]
  /\ stack' = <<Frame(last.op, last.node)>>
  /\ UNCHANGED <<wret, sessionVars, dynVars, genVars, sess>>

WalkStep == WalkEnd \/ WalkSkip \/ WalkCall \/ WalkReturn

NextWalk ==
  \/ \E n \in NodeIds : last = NoCall /\ FindContainerCall(n)
  \/ \E n \in NodeIds : last = NoCall /\ ModuleToDefCall(n)
  \/ WalkBegin
  \/ WalkStep

\* the frames are the stack of one thread: once the call is made, a step that
\* can be taken is taken
SpecWalk == Init /\ [][NextWalk]_vars /\ WF_walkVars(WalkStep)

\* ---------------------------------------------------------------------------
\* Several sessions over one database
\* ---------------------------------------------------------------------------
\* the calls the sessions make
SessionCalls ==
  { [op |-> "to_def", node |-> "y_f", file |-> NoFile],
    [op |-> "to_def", node |-> "l_fa", file |-> NoFile],
    [op |-> "find_container", node |-> "x_fn", file |-> NoFile],
    [op |-> "file_to_def", node |-> NoNode, file |-> "main"] }

\* one call on a cache: the cache after it and its result
RunCall(st, call) ==
  LET Def(r) == [st |-> r.st,
                 res |-> [NoCall EXCEPT !.op = call.op, !.node = call.node, !.def = r.res]]
      Cont(r) == [st |-> r.st,
                  res |-> [NoCall EXCEPT !.op = call.op, !.node = call.node, !.cont = r.res]]
      Mods(r) == [st |-> r.st,
                  res |-> [NoCall EXCEPT !.op = call.op, !.file = call.file, !.mods = r.res]]
  IN  CASE call.op = "to_def" ->
             Def(to_def(st, call.node, WrapperKey(NodeTab[call.node].kind)))
        [] call.op = "find_container" -> Cont(find_container(st, call.node))
        [] call.op = "file_to_def" -> Mods(file_to_def(st, call.file))

\* faulty variant: every context borrows the cache of session 1
SessionCache_shared(s) == sess[1].cache

\* SourceToDefCtx.cache: the cache of the session the context belongs to
SessionCache(s) == sess[s].cache

SessionCall(s, call) ==
  /\ Len(sess[s].hist) < MaxOps
  /\ LET Return(r) ==
           sess' = [sess EXCEPT ![s] = [cache |-> r.st, last |-> r.res,
                                        hist |-> Append(sess[s].hist, call)]]
     IN  Return(RunCall(SessionCache(s), call))
  /\ UNCHANGED <<sessionVars, dynVars, genVars, walkVars>>

NextSessions == \E s \in Sessions : \E call \in SessionCalls : SessionCall(s, call)

SpecSessions == Init /\ [][NextSessions]_vars

\* ---------------------------------------------------------------------------
\* Definition to syntax: HasSource::source
\* ---------------------------------------------------------------------------
\* the call did not return: it ended in a panic
Panicked == "panic"

\* ids of an extern crate declaration, an extern block and a use declaration of
\* crate cc, and of the fields of S, V and U
OtherItemDefs ==
  { DefId("ExternCrateId", "cc", "std", 0), DefId("ExternBlockId", "cc", "C", 0),
    DefId("UseId", "cc", "use", 0) }

FieldDefs ==
  { DefId("FieldId", "ca", "S", 0), DefId("FieldId", "ca", "S", 1),
    DefId("FieldId", "cc", "V", 0), DefId("FieldId", "cc", "U", 0) }

\* hir_def::src::HasSource::source, by the impl the id type selects
HasSource_source(d) ==
  IF d.kind \in {"ExternCrateId", "ExternBlockId", "UseId"} THEN Panicked
  ELSE source(d)

\* hir::HasSource::source for Field: the argument of child_source is todo!()
Field_source(d) == Panicked

SourceCall(d) ==
  /\ nops < MaxOps
  /\ last.node # Panicked
  /\ nops' = nops + 1
  /\ last' = [NoCall EXCEPT !.op = "source", !.def = d,
                            !.node = IF d.kind = "FieldId" THEN Field_source(d)
                                     ELSE HasSource_source(d)]
  /\ UNCHANGED <<dynmap_cache, expansion_info_cache, file_to_def_cache, computed, served,
                 db, crate_order, dynVars, genVars, walkVars, sess>>

NextSource == \E d \in ItemDefs \cup OtherItemDefs \cup FieldDefs : SourceCall(d)

SpecSource == Init /\ [][NextSource]_vars

\* ---------------------------------------------------------------------------
\* Definition to syntax through the cache: HasSource::ast_ptr_with_ctx and
\* source_with_ctx over a DefToSrcCacheContext
\* ---------------------------------------------------------------------------
\* faulty variant: the entry is keyed by the kind of the id alone
ast_ptr_with_ctx_kind_key(map, d) ==
  get_insert_with(map, KeyOfId(d.kind), [d EXCEPT !.crate = "", !.name = ""],
                  ast_ptr(Lookup(d)))

\* ast_ptr_with_ctx of an item id: get_or_inset_with under the key of the id
\* type, the id itself, and the computation ast_ptr(self.lookup(db))
ast_ptr_with_ctx(map, d) ==
  get_insert_with(map, KeyOfId(d.kind), d, ast_ptr(Lookup(d)))

\* ast_ptr_with_ctx, or source_with_ctx which turns the pointer into a node of
\* the file's tree; the three id types without an implementation panic
SourceWithCtxCall(d, to_node) ==
  /\ nops < MaxOps
  /\ dlast.op # Panicked
  /\ nops' = nops + 1
  /\ IF d \in OtherItemDefs
     THEN /\ dlast' = [NoDynCall EXCEPT !.op = Panicked, !.id = d]
          /\ UNCHANGED <<d2s, dwritten, last>>
     ELSE LET Return(r) ==
                /\ d2s' = r.map
                /\ dwritten' = IF r.ran THEN HashInsert(dwritten, <<KeyOfId(d.kind), d>>, r.res)
                               ELSE dwritten
                /\ dlast' = [NoDynCall EXCEPT !.op = "ast_ptr_with_ctx", !.key = KeyOfId(d.kind),
                               !.id = d, !.ptr = r.res, !.ran = r.ran,
                               !.file = Lookup(d).file]
                /\ last' = IF to_node
                           THEN [NoCall EXCEPT !.op = "source_with_ctx", !.def = d,
                                               !.node = ToNode(Lookup(d).file, r.res)]
                           ELSE NoCall
          IN  Return(ast_ptr_with_ctx(d2s, d))
  /\ UNCHANGED <<dynmap_cache, expansion_info_cache, file_to_def_cache, computed, served,
                 db, crate_order, genVars, walkVars, sess>>

NextSrcCache ==
  \E d \in ItemDefs \cup OtherItemDefs : \E to_node \in BOOLEAN : SourceWithCtxCall(d, to_node)

SpecSrcCache == Init /\ [][NextSrcCache]_vars

\* ---------------------------------------------------------------------------
\* hir::HasSource for Param and SelfParam of a function
\* ---------------------------------------------------------------------------
NoParam == [side |-> "None", pos |-> 0]

\* the ordinary parameters written in a list of n parameters, by position
Params(n) == [i \in 1..n |-> [side |-> "Right", pos |-> i - 1]]

\* what Function::source and the syntax of the function can be: no source, no
\* parameter list, or a list with or without `self` and up to MaxParams + 1
\* ordinary parameters; and the index the Param carries
ParamInputs ==
  { in \in [has_source : BOOLEAN, has_list : BOOLEAN, has_self : BOOLEAN,
            params : { Params(n) : n \in 0..(MaxParams + 1) },
            idx : 0..(MaxParams + 3)] :
      /\ ~in.has_list => (~in.has_self /\ in.params = <<>>)
      /\ ~in.has_source => ~in.has_list }

\* Iterator::nth: the element at a position counted from 0
Nth(seq, i) == IF i < Len(seq) THEN seq[i + 1] ELSE NoParam

\* usize::checked_sub: NoBinding stands for None
checked_sub(a, b) == IF a < b THEN NoBinding ELSE a - b

\* faulty variant: the index is used as it is when the list has `self`
Param_source_no_shift(in) ==
  IF ~in.has_source \/ ~in.has_list THEN NoParam
  ELSE IF in.has_self
  THEN IF checked_sub(in.idx, 1) # NoBinding
       THEN Nth(in.params, in.idx)
       ELSE [side |-> "Left", pos |-> 0]
  ELSE Nth(in.params, in.idx)

\* <Param as HasSource>::source for a parameter of a function definition
Param_source(in) ==
  IF ~in.has_source \/ ~in.has_list THEN NoParam
  ELSE IF in.has_self
  THEN IF checked_sub(in.idx, 1) # NoBinding
       THEN Nth(in.params, checked_sub(in.idx, 1))
       ELSE [side |-> "Left", pos |-> 0]
  ELSE Nth(in.params, in.idx)

\* <SelfParam as HasSource>::source
SelfParam_source(in) ==
  IF in.has_source /\ in.has_list /\ in.has_self THEN [side |-> "Left", pos |-> 0]
  ELSE NoParam

InitParam ==
  /\ InitSession
  /\ InitDyn
  /\ InitWalk
  /\ InitSess
  /\ gin \in ParamInputs
  /\ gout = [done |-> FALSE, value |-> NoParam, self |-> NoParam]

ParamSourceCall ==
  /\ ~gout.done
  /\ gout' = [done |-> TRUE, value |-> Param_source(gin), self |-> SelfParam_source(gin)]
  /\ UNCHANGED <<gin, sessionVars, dynVars, walkVars, sess>>

SpecParam == InitParam /\ [][ParamSourceCall]_vars

\* ---------------------------------------------------------------------------
\* Properties
\* ---------------------------------------------------------------------------
\* the kinds of item C1 speaks of
RoundTripKinds == {"StructId", "UnionId", "EnumId", "EnumVariantId", "FunctionId",
                   "ConstId", "StaticId", "TraitId", "TraitAliasId", "TypeAliasId",
                   "ImplId", "MacroRulesId"}

\* the file-to-module index of a file, computed without a cache
ModulesOfFile(file) == FileToDefLoop(relevant_crates(file), 1, <<>>, file)

\* d is declared in the tree of the first module the index lists for its original file
InFirstOwnerTree(d) ==
  First(ModulesOfFile(OriginalFile(Lookup(d).file))) = ModuleId(d.crate, "root")

\* C1 as stated: for every item definition d with a source, resolving the node
\* source(d) with the per-kind to_def returns exactly d.
C1_RoundTripEveryDef ==
  \A d \in ItemDefs :
    (d.kind \in RoundTripKinds /\ last.op = "to_def" /\ last.node = source(d))
      => last.def = d

\* C1 amended: the round trip returns d for every item definition d declared in
\* the tree of the first module that file_to_def lists for d's original file.
C1_RoundTripFirstOwner ==
  \A d \in ItemDefs :
    (d.kind \in RoundTripKinds /\ InFirstOwnerTree(d)
       /\ last.op = "to_def" /\ last.node = source(d))
      => last.def = d

\* a definition produced by a nested macro expansion made the round trip
C1_Witness ==
  /\ last.op = "to_def"
  /\ last.node = "y_st"
  /\ last.def = DefId("StructId", "cc", "Q", 0)
  /\ source(last.def) = "y_st"


\* C2: the child enumeration runs at most once per (container, file) key: every
\* stored map was computed exactly once, is still the map that computation
\* produced, and every key answered from the cache is a stored key.
C2_EnumeratedOnce ==
  /\ DOMAIN computed = DOMAIN dynmap_cache
  /\ \A k \in DOMAIN dynmap_cache :
       /\ computed[k] = 1
       /\ dynmap_cache[k] = child_by_source(k[1], k[2])
  /\ served \subseteq DOMAIN dynmap_cache

\* a second call was answered from a stored map
C2_Witness ==
  /\ nops = 2
  /\ served # {}
  /\ \A k \in served : computed[k] = 1 /\ DOMAIN dynmap_cache[k] # {}

\* the proper ancestors of a node inside its own tree
RECURSIVE AncestorsInFile(_)
AncestorsInFile(n) ==
  IF NodeTab[n].parent = NoNode THEN {}
  ELSE {NodeTab[n].parent} \cup AncestorsInFile(NodeTab[n].parent)

\* the argument site of the expansion a node lies in
ArgSiteOf(n) == ExpansionInfoOf(NodeTab[n].file).arg

\* no ancestor inside the expansion resolves to a container
NoContainerInExpansion(n) ==
  \A a \in AncestorsInFile(n) : container_to_def(EmptyCache, a).res = NoFound

\* C3: for a node of a macro expansion (at any nesting depth) with no resolvable
\* container inside the expansion, find_container returns the container it
\* returns for the argument site of the macro call.
C3_MacroTraversal ==
  (/\ last.op = "find_container"
   /\ IsMacroFile(NodeTab[last.node].file)
   /\ ArgSiteOf(last.node) # NoNode
   /\ NoContainerInExpansion(last.node))
    => last.cont = find_container(EmptyCache, ArgSiteOf(last.node)).res

\* a struct produced by a macro call nested in another expansion resolved to the
\* module that encloses the outer call
C3_Witness ==
  /\ last.op = "find_container"
  /\ last.node = "y_st"
  /\ last.cont = [tag |-> "ModuleId", def |-> ModuleId("cc", "inner")]
  /\ "mx1" \in DOMAIN expansion_info_cache
  /\ "mx2" \in DOMAIN expansion_info_cache

\* the fields as written in the declaration of a struct, union or variant
DeclaredFields(name) ==
  CASE name = "S" -> <<"l_fa", "l_fb">>
    [] name = "V" -> <<"m_vf">>
    [] name = "Q" -> <<"y_f">>
    [] name = "U" -> <<"m_uf">>
    [] OTHER -> <<>>

FieldKeyOf(n) == IF NodeTab[n].kind = "TupleField" THEN TUPLE_FIELD ELSE RECORD_FIELD

FieldEntries(m) ==
  (IF TagPtrToId(TUPLE_FIELD) \in DOMAIN m
   THEN Cardinality(DOMAIN m[TagPtrToId(TUPLE_FIELD)]) ELSE 0)
  + (IF TagPtrToId(RECORD_FIELD) \in DOMAIN m
     THEN Cardinality(DOMAIN m[TagPtrToId(RECORD_FIELD)]) ELSE 0)

IsVariantKey(key) ==
  /\ \/ key[1].tag = "VariantId"
     \/ key[1].tag = "DefWithBodyId" /\ key[1].def.kind = "EnumVariantId"
  /\ key[2] = Lookup(key[1].def).file

\* C5: whatever was queried before, the field map stored for a struct, union or
\* variant with n declared fields has exactly n entries, and the k-th declared
\* field is associated with the k-th field id.
C5_FieldOrder ==
  \A key \in DOMAIN dynmap_cache :
    IsVariantKey(key) =>
      LET v == key[1].def
          decl == DeclaredFields(v.name)
          m == dynmap_cache[key]
      IN  /\ FieldEntries(m) = Len(decl)
          /\ \A k \in 1..Len(decl) :
               AstPtrPolicy_get(m, FieldKeyOf(decl[k]), AstPtrNew(decl[k]))
                 = DefId("FieldId", v.crate, v.name, k - 1)

\* the second field of S was resolved after another query had filled the cache
C5_Witness ==
  /\ nops = 2
  /\ last.op = "to_def"
  /\ last.node = "l_fb"
  /\ last.def.kind = "FieldId" /\ last.def.local = 1
  /\ Cardinality(DOMAIN dynmap_cache) >= 3

\* no relevant crate declares the file and no include! invocation expands into it
Detached(file) ==
  \A c \in RelevantSet(file) :
    /\ ModulesForFile(c, file) = <<>>
    /\ \A i \in 1..Len(IncludeMacroInvoc(c)) : IncludeMacroInvoc(c)[i][2] # file

\* C6: file_to_def of a detached file returns the empty sequence and caches it.
C6_DetachedFile ==
  (last.op = "file_to_def" /\ Detached(last.file))
    => /\ last.mods = <<>>
       /\ last.file \in DOMAIN file_to_def_cache
       /\ file_to_def_cache[last.file] = <<>>

\* file_to_def ran on a file of the source roots of two crates that no module declares
C6_Witness ==
  /\ last.op = "file_to_def"
  /\ last.file = "orph"
  /\ RelevantSet(last.file) # {}
  /\ last.mods = <<>>
  /\ "orph" \in DOMAIN file_to_def_cache

\* the modules of crate c that own the file: those that declare it, else those
\* that own the original file of an include! invocation expanding into it
OwnerSet(c, file) ==
  IF ModulesForFile(c, file) # <<>>
  THEN { ModulesForFile(c, file)[i] : i \in 1..Len(ModulesForFile(c, file)) }
  ELSE UNION { { ModulesForFile(c, OriginalFile(IncludeMacroInvoc(c)[i][1]))[j] :
                   j \in 1..Len(ModulesForFile(c, OriginalFile(IncludeMacroInvoc(c)[i][1]))) } :
               i \in { i \in 1..Len(IncludeMacroInvoc(c)) : IncludeMacroInvoc(c)[i][2] = file } }

CrateRank(c) == CHOOSE i \in 1..Len(crate_order) : crate_order[i] = c

\* C7: file_to_def drops no owning module of any relevant crate, lists the
\* crates in relevant-crate order, and within a crate keeps the order of
\* modules_for_file.
C7_MultiModuleFile ==
  last.op = "file_to_def" =>
    /\ \A c \in RelevantSet(last.file) :
         \A m \in OwnerSet(c, last.file) :
           \E i \in 1..Len(last.mods) : last.mods[i] = m
    /\ \A i, j \in 1..Len(last.mods) :
         i < j => CrateRank(last.mods[i].crate) <= CrateRank(last.mods[j].crate)
    /\ \A c \in RelevantSet(last.file) :
         ModulesForFile(c, last.file) # <<>> =>
           LET of_c(m) == m.crate = c
           IN  SelectSeq(last.mods, of_c) = ModulesForFile(c, last.file)

\* a file declared by two modules of one crate and included by another crate
C7_Witness ==
  /\ last.op = "file_to_def"
  /\ last.file = "mix"
  /\ crate_order[1] = "cb"
  /\ last.mods = <<ModuleId("cb", "root"), ModuleId("ca", "mix"), ModuleId("ca", "mix2")>>

Injective(f) == \A a, b \in DOMAIN f : f[a] = f[b] => a = b

\* every stored map is one-to-one per kind
OneToOne ==
  \A key \in DOMAIN dynmap_cache :
    LET m == dynmap_cache[key]
    IN  /\ \A t \in DOMAIN m : Injective(m[t])
        /\ \A t1, t2 \in DOMAIN m :
             (t1 # t2 /\ t1[3] = t2[3]) =>
               { m[t1][x] : x \in DOMAIN m[t1] } \cap { m[t2][x] : x \in DOMAIN m[t2] } = {}

\* C10: every stored Identity Map is one-to-one per kind, and a stored map is
\* never modified or removed afterwards.
C10_OneToOneImmutable ==
  /\ []OneToOne
  /\ [][\A k \in DOMAIN dynmap_cache :
          k \in DOMAIN dynmap_cache' /\ dynmap_cache'[k] = dynmap_cache[k]]_vars

\* a map with two fields is stored and a later call left it in place
C10_Witness ==
  /\ nops = 2
  /\ \E key \in DOMAIN dynmap_cache :
       /\ key[1].tag = "VariantId"
       /\ FieldEntries(dynmap_cache[key]) = 2
       /\ key \in served


\* the declaration node of a trait or trait alias
DeclNodeOf(g) == IF g.kind = "TraitId" THEN "l_tr" ELSE "m_tra"

\* C4: for a trait or trait alias, child_source maps the first semantic index
\* (Self) to the declaration node itself and the i-th written parameter to the
\* (i+1)-th semantic index; with no written parameter the map has exactly one
\* entry, index 0.
C4_TraitSelfParam ==
  (gout.done /\ gin.def.kind \in {"TraitId", "TraitAliasId"}) =>
    LET m == gout.value
    IN  /\ gin.sem[1] \in DOMAIN m
        /\ m[gin.sem[1]] = [side |-> "Right", node |-> DeclNodeOf(gin.def)]
        /\ \A i \in 1..Len(gin.syn) :
             /\ gin.sem[i + 1] \in DOMAIN m
             /\ m[gin.sem[i + 1]] = [side |-> "Left", node |-> gin.syn[i]]
        /\ DOMAIN m = { gin.sem[i] : i \in 1..(Len(gin.syn) + 1) }
        /\ gin.syn = <<>> => DOMAIN m = {0}

\* child_source ran on a trait with two written parameters
C4_Witness ==
  /\ gout.done
  /\ gin.def.kind = "TraitId"
  /\ Len(gin.syn) = 2
  /\ Cardinality(DOMAIN gout.value) = 3

\* the (key, id) pairs some insert wrote
Written == DOMAIN dwritten

\* C8: is_empty for a def-to-source key returns false once an association was
\* inserted under that key, and true only when none was.
C8_IsEmptyAfterInsert ==
  dlast.op = "is_empty" =>
    (dlast.empty <=> ~(\E id \in IdsFor(dlast.key) : <<dlast.key, id>> \in Written))

\* C9: get under a def-to-source key returns the pointer of the latest insert of
\* that id under that key, and absent when that id was never inserted under
\* that key, whatever was inserted under other keys.
C9_InsertGet ==
  /\ \A key \in DynKeys : \A id \in IdsFor(key) :
       DefIdPolicy_get(d2s, key, id)
         = IF <<key, id>> \in Written THEN dwritten[<<key, id>>] ELSE NoPtr
  /\ dlast.op = "get" =>
       dlast.ptr = IF <<dlast.key, dlast.id>> \in Written
                   THEN dwritten[<<dlast.key, dlast.id>>] ELSE NoPtr
  /\ dlast.op = "insert_with" => DefIdPolicy_get(d2s, dlast.key, dlast.id) = dlast.ptr

\* an insert replaced an earlier pointer of a field id while the same id stays
\* absent under the other field key and a struct key holds an entry
C9_Witness ==
  /\ dlast.op = "insert_with"
  /\ dlast.key = TUPLE_FIELD
  /\ dlast.prev # NoPtr
  /\ dlast.prev # dlast.ptr
  /\ <<RECORD_FIELD, dlast.id>> \notin Written
  /\ \E id \in IdsFor(STRUCT) : <<STRUCT, id>> \in Written


\* one step of the ancestor relation through macro-expansion boundaries: the
\* parent in the tree, and from the root of an expansion the parent of its
\* argument site
Up(n) ==
  IF NodeTab[n].parent # NoNode THEN NodeTab[n].parent
  ELSE IF IsMacroFile(NodeTab[n].file) /\ ArgSiteOf(n) # NoNode
  THEN NodeTab[ArgSiteOf(n)].parent
  ELSE NoNode

\* the ancestors of a node, innermost first
RECURSIVE AncestorChain(_)
AncestorChain(n) == IF Up(n) = NoNode THEN <<>> ELSE <<Up(n)>> \o AncestorChain(Up(n))

AncestorsWithMacros(n) == { AncestorChain(n)[i] : i \in 1..Len(AncestorChain(n)) }

\* no ancestor of the node yields a container
NoAncestorContainer(n) ==
  \A a \in AncestorsWithMacros(n) : container_to_def(EmptyCache, a).res = NoFound

\* the first module the stored file-to-module index lists for a file, if any
FirstIndexed(file) ==
  IF file \in DOMAIN file_to_def_cache /\ file_to_def_cache[file] # <<>>
  THEN file_to_def_cache[file][1]
  ELSE NoDef

\* C11: when no ancestor (through macro boundaries) yields a container,
\* find_container returns the first module of the index of the node's original
\* file and absent when the index is empty; source_file_to_def and the
\* no-parent case of module_to_def make the same first-module choice.
C11_FallbackFirstModule ==
  /\ (last.op = "find_container" /\ NoAncestorContainer(last.node)) =>
       /\ OriginalFile(NodeTab[last.node].file) \in DOMAIN file_to_def_cache
       /\ last.cont = IF FirstIndexed(OriginalFile(NodeTab[last.node].file)) = NoDef
                      THEN NoContainer
                      ELSE [tag |-> "ModuleId",
                            def |-> FirstIndexed(OriginalFile(NodeTab[last.node].file))]
  /\ last.op = "source_file_to_def" =>
       last.def = FirstIndexed(OriginalFile(NodeTab[last.node].file))
  /\ (/\ last.op = "module_to_def"
      /\ \A a \in AncestorsWithMacros(last.node) :
           NodeTab[a].kind \notin {"Module", "BlockExpr"}) =>
       last.def = IF FirstIndexed(OriginalFile(NodeTab[last.node].file)) = NoDef
                  THEN NoDef
                  ELSE ModuleChild(FirstIndexed(OriginalFile(NodeTab[last.node].file)),
                                   ModName(last.node))

\* a top-level item of a file owned by two crates fell back to the first of
\* the two root modules
C11_Witness ==
  /\ last.op = "find_container"
  /\ last.node = "l_st"
  /\ Len(file_to_def_cache["lib"]) = 2
  /\ last.cont = [tag |-> "ModuleId", def |-> ModuleId(crate_order[1], "root")]


\* the positions of the ancestors that resolve to a container
Resolving(n) ==
  { i \in 1..Len(AncestorChain(n)) :
      container_to_def(EmptyCache, AncestorChain(n)[i]).res # NoFound }

\* the innermost ancestor that resolves to a container, if any
YieldingAncestor(n) ==
  IF Resolving(n) = {} THEN NoNode
  ELSE AncestorChain(n)[CHOOSE i \in Resolving(n) : \A j \in Resolving(n) : i <= j]

\* C12 as stated: when the yielding ancestor is a struct, union or enum item,
\* find_container returns the VariantId container built from the item's id.
C12_VariantLevelAlsoForEnum ==
  (/\ last.op = "find_container"
   /\ YieldingAncestor(last.node) # NoNode
   /\ NodeTab[YieldingAncestor(last.node)].kind \in {"Struct", "Union", "Enum"}) =>
     /\ last.cont.tag = "VariantId"
     /\ source(last.cont.def) = YieldingAncestor(last.node)

\* C12 amended: a yielding struct or union gives the VariantId container built
\* from the item's id; a yielding enum gives the EnumId container of the enum.
C12_VariantLevelContainer ==
  (last.op = "find_container" /\ YieldingAncestor(last.node) # NoNode) =>
    LET a == YieldingAncestor(last.node)
    IN  /\ NodeTab[a].kind = "Struct" =>
             /\ last.cont.tag = "VariantId"
             /\ last.cont.def.kind = "StructId"
             /\ source(last.cont.def) = a
        /\ NodeTab[a].kind = "Union" =>
             /\ last.cont.tag = "VariantId"
             /\ last.cont.def.kind = "UnionId"
             /\ source(last.cont.def) = a
        /\ NodeTab[a].kind = "Enum" =>
             /\ last.cont.tag = "EnumId"
             /\ last.cont.def.kind = "EnumId"
             /\ source(last.cont.def) = a

\* the container of a field of a union was asked for
C12_Witness ==
  /\ last.op = "find_container"
  /\ last.node = "m_uf"
  /\ last.cont = [tag |-> "VariantId", def |-> DefId("UnionId", "cc", "U", 0)]

\* syntactic depth of a node in its own tree
Depth(n) == Cardinality(AncestorsInFile(n))

\* number of macro expansions a file is nested in
RECURSIVE MacroDepth(_)
MacroDepth(file) ==
  IF ~IsMacroFile(file) \/ ExpansionInfoOf(file).arg = NoNode THEN 0
  ELSE 1 + MacroDepth(NodeTab[ExpansionInfoOf(file).arg].file)

\* b lies strictly above a: higher in the same tree, or in a file fewer
\* expansions deep
Descends(a, b) ==
  \/ NodeTab[b].file = NodeTab[a].file /\ Depth(b) < Depth(a)
  \/ MacroDepth(NodeTab[b].file) < MacroDepth(NodeTab[a].file)

\* every nested call is on the candidate its caller stands below, and no node
\* is the subject of two frames
ChainDescends ==
  /\ \A i \in 1..(Len(stack) - 1) :
       /\ stack[i + 1].node = WalkParent(stack[i])
       /\ Descends(stack[i].cur, stack[i + 1].node)
  /\ \A i \in 1..Len(stack) : \A j \in 1..Len(stack) :
       i < j => /\ stack[i].node # stack[j].node
                /\ stack[i].cur # stack[j].cur
  /\ Len(stack) < MaxDepth

\* a step that calls or walks on moves to a strictly higher node
StepDescends ==
  (stack # <<>> /\ stack' # stack /\ Len(stack') >= Len(stack))
    => Descends(Top.cur, stack'[Len(stack')].cur)

\* the value the frames return is the value of the nested operators
WalkAgrees ==
  (stack = <<>> /\ wret.has) =>
    wret.val = IF wstart.fn = "find_container" THEN last.cont ELSE AsModule(last.def)

\* C13: every resolve call terminates: each nested call and each step of the
\* walk is on a node strictly higher in the same tree or in a file fewer macro
\* expansions deep, and no call chain visits a node twice
C13_Termination ==
  /\ (stack # <<>>) ~> (stack = <<>> /\ wret.has)
  /\ []ChainDescends
  /\ [][StepDescends]_vars

\* a call on a field two expansions deep has returned the struct's container
C13_Witness ==
  /\ wstart = [fn |-> "find_container", node |-> "y_f"]
  /\ stack = <<>>
  /\ wret.has
  /\ wret.val.tag = "VariantId"

\* the node has a container whose map holds no entry for the node's pointer
NotInMap(n) ==
  LET Miss(c) ==
        /\ c # NoContainer
        /\ AstPtrPolicy_get(child_by_source(c, NodeTab[n].file),
                            WrapperKey(NodeTab[n].kind), AstPtrNew(n)) = NoDef
  IN  Miss(find_container(EmptyCache, n).res)

NotFound(n) == find_container(EmptyCache, n).res = NoContainer \/ NotInMap(n)

\* C14: to_def answers absent when the node has no container or its pointer is
\* not in the container's map, and the call after an absent answer is answered
\* as by a fresh session, with every cached map still in place
C14_NotFoundIsAbsent ==
  /\ []((last.op = "to_def" /\ NotFound(last.node)) => last.def = NoDef)
  /\ [][(last.op = "to_def" /\ last.def = NoDef /\ last'.op = "to_def")
          => /\ last'.def = to_def(EmptyCache, last'.node,
                                   WrapperKey(NodeTab[last'.node].kind)).res
             /\ DOMAIN dynmap_cache \subseteq DOMAIN dynmap_cache'
             /\ \A k \in DOMAIN dynmap_cache : dynmap_cache'[k] = dynmap_cache[k]]_vars

\* a function of the detached file was asked for, then an item that resolves
C14_Witness ==
  /\ "det" \in DOMAIN file_to_def_cache
  /\ file_to_def_cache["det"] = <<>>
  /\ last.op = "to_def"
  /\ last.def # NoDef
  /\ nops = 2

\* an attributed function, whose item lives in the expansion, is not in the map
\* of its impl
C14_WitnessNotInMap ==
  /\ last.op = "to_def"
  /\ last.node = "m_att"
  /\ NotInMap("m_att")
  /\ last.def = NoDef

\* C15: asking for the source of a definition of any kind, extern crate
\* declarations, extern blocks, use declarations and fields included, returns
\* a node or absent, never an abort
C15_SourceNeverAborts ==
  last.op = "source" => last.node \in NodeIds \cup {NoNode}

\* the kinds whose source is implemented return the declaring node
C15_ItemSourceReturns ==
  (last.op = "source" /\ last.def \in ItemDefs) => last.node \in NodeIds

\* every stored value is the value its computation yields, and a file_to_def
\* call returns the stored value
ReadThrough ==
  /\ \A k \in DOMAIN dynmap_cache : dynmap_cache[k] = child_by_source(k[1], k[2])
  /\ \A mf \in DOMAIN expansion_info_cache :
       expansion_info_cache[mf] = ExpansionInfoOf(mf)
  /\ \A f \in DOMAIN file_to_def_cache : file_to_def_cache[f] = ModulesOfFile(f)
  /\ last.op = "file_to_def" =>
       /\ last.file \in DOMAIN file_to_def_cache
       /\ last.mods = file_to_def_cache[last.file]

\* no step removes or changes an entry of m
Kept(m, n) == \A k \in DOMAIN m : k \in DOMAIN n /\ n[k] = m[k]

\* C16: the three session caches are read-through and monotone: a stored value
\* is the computed value, a hit returns it and computes nothing, and no step
\* removes or overwrites an entry
C16_ReadThroughMonotone ==
  /\ []ReadThrough
  /\ [][/\ Kept(dynmap_cache, dynmap_cache')
        /\ Kept(expansion_info_cache, expansion_info_cache')
        /\ Kept(file_to_def_cache, file_to_def_cache')
        /\ (last'.op = "file_to_def" /\ last'.file \in DOMAIN file_to_def_cache)
             => /\ last'.mods = file_to_def_cache[last'.file]
                /\ UNCHANGED <<dynmap_cache, expansion_info_cache, file_to_def_cache,
                               computed>>]_vars

\* all three caches hold entries and the second call was served from a stored map
C16_Witness ==
  /\ nops = 2
  /\ served # {}
  /\ DOMAIN expansion_info_cache # {}
  /\ DOMAIN file_to_def_cache # {}

\* how often m occurs in a sequence
Occurrences(seq, m) == Cardinality({ i \in DOMAIN seq : seq[i] = m })

AllModules ==
  { ModuleId(c, name) : c \in Crates, name \in {"root", "inner", "mix", "mix2"} }

\* how often the include! invocations of c that expand into `file` contribute m
IncludeOccurrences(c, file, m) ==
  Cardinality(
    { <<i, j>> \in (1..Len(IncludeMacroInvoc(c))) \X (1..Cardinality(AllModules)) :
        /\ IncludeMacroInvoc(c)[i][2] = file
        /\ j \in DOMAIN ModulesForFile(c, OriginalFile(IncludeMacroInvoc(c)[i][1]))
        /\ ModulesForFile(c, OriginalFile(IncludeMacroInvoc(c)[i][1]))[j] = m })

\* C17: the index of a file lists, for each relevant crate, every module of the
\* crate that declares the file; only for a crate with no such module it lists,
\* per include! invocation of that crate expanding into the file, the modules
\* owning the invocation's original file; and it lists nothing else
C17_IndexConstruction ==
  last.op = "file_to_def" =>
    \A m \in AllModules :
      Occurrences(last.mods, m) =
        IF m.crate \notin RelevantSet(last.file) THEN 0
        ELSE IF ModulesForFile(m.crate, last.file) # <<>>
        THEN Occurrences(ModulesForFile(m.crate, last.file), m)
        ELSE IncludeOccurrences(m.crate, last.file, m)

\* the index of a file one crate declares and includes, and another only includes
C17_Witness ==
  /\ last.op = "file_to_def"
  /\ last.file = "mix"
  /\ Len(last.mods) = 3
  /\ Occurrences(last.mods, ModuleId("cb", "root")) = 1
  /\ IncludeOccurrences("ca", "mix", ModuleId("ca", "root")) = 1

\* the walk of the top frame stands on a node without parent and is about to
\* ask for the next candidate
AtRoot == stack # <<>> /\ ~wret.has /\ NodeTab[Top.cur].parent = NoNode

\* the root the top frame stands on is the root of an expansion with an
\* argument site
HasArgSite ==
  /\ IsMacroFile(NodeTab[Top.cur].file)
  /\ ExpansionInfoOf(NodeTab[Top.cur].file).arg # NoNode

\* C18: from a node without parent in a macro expansion the next candidate is
\* the parent of the argument-site node, never the argument site itself; in a
\* file that is no expansion, or an expansion without argument site, the walk
\* ends
C18_MacroBoundary ==
  [][AtRoot =>
       IF HasArgSite
       THEN /\ stack' # <<>>
            /\ stack'[Len(stack')].cur =
                 NodeTab[ExpansionInfoOf(NodeTab[Top.cur].file).arg].parent
            /\ stack'[Len(stack')].cur # ExpansionInfoOf(NodeTab[Top.cur].file).arg
       ELSE stack' = Pop /\ wret'.has]_vars

\* the walk left the expansion of an attribute and resolves the impl around the
\* attributed function
C18_Witness ==
  /\ Len(stack) = 2
  /\ stack[1].cur = "a_root"
  /\ ExpansionInfoOf("mxa").arg = "m_att"
  /\ stack[2].node = "m_imp"

\* a session that makes the calls of h alone, from an empty cache
RECURSIVE Alone(_)
Alone(h) ==
  IF h = <<>> THEN [st |-> EmptyCache, res |-> NoCall]
  ELSE RunCall(Alone(SubSeq(h, 1, Len(h) - 1)).st, h[Len(h)])

\* C19: two sessions do not affect each other: a step of one session leaves
\* the other untouched, and under every interleaving the cache and the last
\* result of each session are those of the session making its calls alone
C19_SessionIsolation ==
  /\ [](\A s \in Sessions :
          /\ sess[s].cache = Alone(sess[s].hist).st
          /\ sess[s].last = Alone(sess[s].hist).res)
  /\ [][\A s \in Sessions : \A t \in Sessions \ {s} :
          sess'[s] # sess[s] => sess'[t] = sess[t]]_vars

\* both sessions resolved the same field twice: each computed the map itself
\* and was served from its own cache the second time
C19_Witness ==
  \A s \in Sessions :
    /\ Len(sess[s].hist) = 2
    /\ sess[s].hist[1] = sess[s].hist[2]
    /\ sess[s].hist[1].node = "y_f"
    /\ sess[s].cache.hit # {}
    /\ \A k \in DOMAIN sess[s].cache.dm : sess[s].cache.cnt[k] = 1

\* the candidate yields a container
Resolves(a) == container_to_def(EmptyCache, a).res # NoFound

\* the container of the innermost resolving ancestor; without one, the first
\* module of the original file
NearestContainer(n) ==
  IF YieldingAncestor(n) # NoNode
  THEN [tag |-> container_to_def(EmptyCache, YieldingAncestor(n)).res.tag,
        def |-> container_to_def(EmptyCache, YieldingAncestor(n)).res.def]
  ELSE AsModule(First(ModulesOfFile(OriginalFile(NodeTab[n].file))))

\* C20: find_container returns the container of the nearest resolving ancestor:
\* the candidates are taken innermost first, a candidate that does not resolve
\* is passed, and the walk never stands on a candidate that resolved, so no
\* ancestor outside the first resolving one is consulted
C20_NearestAncestor ==
  /\ [](\A i \in DOMAIN stack :
          stack[i].fn = "find_container" =>
            /\ stack[i].cur # stack[i].node =>
                 /\ stack[i].cur \in AncestorsWithMacros(stack[i].node)
                 /\ ~Resolves(stack[i].cur)
            /\ YieldingAncestor(stack[i].node) # NoNode =>
                 stack[i].cur \notin AncestorsWithMacros(YieldingAncestor(stack[i].node)))
  /\ []((stack = <<>> /\ wret.has /\ wstart.fn = "find_container")
          => wret.val = NearestContainer(wstart.node))

\* the parameter list of an attributed function: the function does not
\* resolve and is passed, the impl around it is the nearest resolving ancestor
C20_Witness ==
  /\ wstart = [fn |-> "find_container", node |-> "m_ap"]
  /\ stack = <<>> /\ wret.has
  /\ AncestorChain("m_ap")[1] = "m_att"
  /\ ~Resolves("m_att")
  /\ YieldingAncestor("m_ap") = "m_imp"
  /\ wret.val.tag = "ImplId"

\* the field of an enum variant: the variant resolves first, the enum around
\* it resolves too and is not taken
C20_WitnessInner ==
  /\ wstart = [fn |-> "find_container", node |-> "m_vf"]
  /\ stack = <<>> /\ wret.has
  /\ YieldingAncestor("m_vf") = "m_va"
  /\ Resolves("m_en")
  /\ wret.val.tag = "DefWithBodyId"

\* C21: the walk never offers its starting node: the first candidate is the
\* node one step up, every position and every nested call of a frame is on a
\* proper ancestor of the node the call was made for, and find_container(n)
\* does not return the container n itself resolves to
C21_NeverOffersStart ==
  /\ [](\A i \in DOMAIN stack :
          /\ stack[i].cur # stack[i].node =>
               stack[i].cur \in AncestorsWithMacros(stack[i].node)
          /\ stack[i].node \notin AncestorsWithMacros(stack[i].node)
          /\ i > 1 => /\ stack[i].node \in AncestorsWithMacros(stack[i - 1].node)
                      /\ stack[i].node # stack[i - 1].node)
  /\ []((stack = <<>> /\ wret.has /\ wstart.fn = "find_container"
           /\ Resolves(wstart.node))
          => wret.val # [tag |-> container_to_def(EmptyCache, wstart.node).res.tag,
                         def |-> container_to_def(EmptyCache, wstart.node).res.def])
  /\ [][(stack # <<>> /\ ~wret.has /\ Top.cur = Top.node /\ stack' # <<>>
           /\ Len(stack') >= Len(stack))
          => stack'[Len(stack')].cur = Up(Top.node)]_vars

\* find_container on a struct that resolves: the answer is the module around
\* the macro call, not the struct's own container
C21_Witness ==
  /\ wstart = [fn |-> "find_container", node |-> "y_st"]
  /\ stack = <<>> /\ wret.has
  /\ Resolves("y_st")
  /\ container_to_def(EmptyCache, "y_st").res.tag = "VariantId"
  /\ wret.val.tag = "ModuleId"

\* the nearest ancestor that is a module declaration or a block expression
NearestScope(n) ==
  LET scopes == { i \in 1..Len(AncestorChain(n)) :
                    NodeTab[AncestorChain(n)[i]].kind \in {"Module", "BlockExpr"} }
  IN  IF scopes = {} THEN NoNode
      ELSE AncestorChain(n)[CHOOSE i \in scopes : \A j \in scopes : i <= j]

\* the block ids of the block expressions that have a def map
BlockIdOf(b) == IF b = "m_blk" THEN DefId("BlockId", "cc", "k", 0) ELSE NoDef

\* the module a declaration denotes, as C22 states it
RECURSIVE DeclaredModule(_)
DeclaredModule(n) ==
  LET a == NearestScope(n)
      parent_module ==
        IF a = NoNode THEN First(ModulesOfFile(OriginalFile(NodeTab[n].file)))
        ELSE IF NodeTab[a].kind = "Module" THEN DeclaredModule(a)
        ELSE IF BlockIdOf(a) = NoDef THEN NoDef
        ELSE ModuleId(BlockIdOf(a).crate, BlockIdOf(a).name)
  IN  IF parent_module = NoDef \/ ModName(n) = "none" THEN NoDef
      ELSE ModuleChild(parent_module, ModName(n))

\* C22: module_to_def returns the child, under the declaration's name, of the
\* parent module: the module of the nearest enclosing module declaration or the
\* root module of the nearest enclosing block, whichever is nearer across macro
\* boundaries, else the first module owning the file; absent when the parent
\* does not resolve, the declaration has no name or the parent has no such child
C22_ModuleThroughParent ==
  last.op = "module_to_def" => last.def = DeclaredModule(last.node)

\* a module declared inside the block of a function
C22_Witness ==
  /\ last.op = "module_to_def"
  /\ last.node = "m_bmod"
  /\ NearestScope("m_bmod") = "m_blk"
  /\ last.def = ModuleId("cc", "inb")

\* the item kinds the claim lists for generic parameters
GenericItemKinds == {"Fn", "Struct", "Enum", "Trait", "TraitAlias", "TypeAlias", "Impl"}

\* the def an item node resolves to, NoDef when it does not resolve
ItemDefOf(a) ==
  IF NodeTab[a].kind \in ContainerKinds
  THEN to_def(EmptyCache, a, ContainerKey(NodeTab[a].kind)).res
  ELSE NoDef

\* the positions of the ancestors of one of the kinds that resolve
ResolvingOfKind(n, kinds) ==
  { i \in 1..Len(AncestorChain(n)) :
      NodeTab[AncestorChain(n)[i]].kind \in kinds /\ ItemDefOf(AncestorChain(n)[i]) # NoDef }

\* the def of the nearest ancestor of one of the kinds that resolves
NearestOfKind(n, kinds, tag) ==
  IF ResolvingOfKind(n, kinds) = {} THEN NoContainer
  ELSE [tag |-> tag,
        def |-> ItemDefOf(AncestorChain(n)[CHOOSE i \in ResolvingOfKind(n, kinds) :
                                             \A j \in ResolvingOfKind(n, kinds) : i <= j])]

\* C23: the generic-parameter container is the def of the nearest enclosing
\* function, struct, enum, trait, trait alias, type alias or impl that
\* resolves; a union, const, static or module around the parameter is passed
\* over, and without such an item the container and the parameter are absent
C23_GenericParamContainer ==
  last.op = "type_param_to_def" =>
    /\ last.cont = NearestOfKind(last.node, GenericItemKinds, "GenericDefId")
    /\ last.cont = NoContainer => last.def = NoDef
    /\ last.cont # NoContainer =>
         last.cont.def.kind \in {"FunctionId", "StructId", "EnumId", "TraitId",
                                 "TraitAliasId", "TypeAliasId", "ImplId"}

\* a type parameter of an attributed function: the function does not resolve,
\* the impl around it is the container
C23_Witness ==
  /\ last.op = "type_param_to_def"
  /\ last.node = "m_atp"
  /\ NodeTab[AncestorChain("m_atp")[2]].kind = "Fn"
  /\ ItemDefOf(AncestorChain("m_atp")[2]) = NoDef
  /\ last.cont = [tag |-> "GenericDefId", def |-> DefId("ImplId", "cc", "I", 0)]

\* a type parameter written on a union: no container, no parameter
C23_WitnessUnion ==
  /\ last.op = "type_param_to_def"
  /\ last.node = "m_utp"
  /\ ItemDefOf("m_un") # NoDef
  /\ last.cont = NoContainer
  /\ last.def = NoDef

\* the kinds of body owner the claim lists
BodyOwnerKinds == {"Fn", "Const", "Static", "Variant"}

\* the body of the owner stores a binding pattern for the pattern node
IsBindingPattern(d, n) ==
  /\ n \in DOMAIN BodyWithSourceMap(d).node_pat
  /\ BodyWithSourceMap(d).pats[BodyWithSourceMap(d).node_pat[n]].kind = "Bind"

\* C24: bindings, self parameters and labels are resolved against the nearest
\* enclosing function, const, static or enum variant that resolves; a pattern
\* yields its binding only when the body stores a binding pattern for it, a
\* self parameter only when the body has one, a label only when the source map
\* knows it, and nothing is returned without a body owner
C24_BodyOwnerResolution ==
  last.op \in {"bind_pat_to_def", "self_param_to_def", "label_to_def"} =>
    /\ last.cont = NearestOfKind(last.node, BodyOwnerKinds, "DefWithBodyId")
    /\ last.cont = NoContainer => last.def = NoDef
    /\ (last.cont # NoContainer /\ last.op = "bind_pat_to_def") =>
         /\ ~IsBindingPattern(last.cont.def, last.node) => last.def = NoDef
         /\ IsBindingPattern(last.cont.def, last.node) =>
              /\ last.def.kind = "BindingId"
              /\ last.def.name = last.cont.def.name
              /\ last.def.local # NoBinding
    /\ (last.cont # NoContainer /\ last.op = "self_param_to_def") =>
         (last.def = NoDef <=> BodyWithSourceMap(last.cont.def).self_param = NoBinding)
    /\ (last.cont # NoContainer /\ last.op = "label_to_def") =>
         (last.def = NoDef <=> last.node \notin DOMAIN BodyWithSourceMap(last.cont.def).node_label)

\* a pattern of the function k that the body resolved to a path: the owner is
\* found, the source map knows the pattern, and there is no binding
C24_Witness ==
  /\ last.op = "bind_pat_to_def"
  /\ last.node = "m_kcon"
  /\ last.cont = [tag |-> "DefWithBodyId", def |-> DefId("FunctionId", "cc", "k", 0)]
  /\ "m_kcon" \in DOMAIN BodyWithSourceMap(last.cont.def).node_pat
  /\ last.def = NoDef

\* the self parameter of a method found through the expansion of its attribute
C24_WitnessSelf ==
  /\ last.op = "self_param_to_def"
  /\ last.node = "a_sp"
  /\ last.cont = [tag |-> "DefWithBodyId", def |-> DefId("FunctionId", "cc", "h", 0)]
  /\ last.def = DefId("BindingId", "cc", "h", 0)

AliasKinds == {"TraitAlias", "TypeAlias"}

\* C25: the child map of a trait-alias or type-alias container is the empty
\* map, and a to_def lookup whose nearest resolving ancestor is a trait alias
\* or a type alias returns nothing
C25_AliasHasNoChildren ==
  /\ \A k \in DOMAIN dynmap_cache :
       k[1].tag \in {"TraitAliasId", "TypeAliasId"} => dynmap_cache[k] = EmptyDynMap
  /\ (/\ last.op = "to_def"
      /\ YieldingAncestor(last.node) # NoNode
      /\ NodeTab[YieldingAncestor(last.node)].kind \in AliasKinds) => last.def = NoDef

\* a function written inside a type alias: the alias is the container, its
\* map was built for the file and is empty, the lookup found nothing
C25_Witness ==
  /\ last.op = "to_def"
  /\ last.node = "m_tafn"
  /\ YieldingAncestor("m_tafn") = "m_ta"
  /\ <<[tag |-> "TypeAliasId", def |-> DefId("TypeAliasId", "cc", "TA", 0)], "main">>
       \in DOMAIN dynmap_cache
  /\ last.def = NoDef

\* the cache key of a to_def call: the nearest container and the file of the
\* queried node
KeyOfCall(n) == <<NearestContainer(n), NodeTab[n].file>>

\* C26: the child-map cache is keyed by the container and the file of the
\* queried node: every entry holds the map enumerated for its own key's file
\* and was computed once, a to_def call reads the entry of the node's own
\* file, and a later call leaves the entries of other keys as they are
C26_KeyedByQueriedFile ==
  /\ [](\A k \in DOMAIN dynmap_cache :
          /\ dynmap_cache[k] = child_by_source(k[1], k[2])
          /\ computed[k] = 1)
  /\ []((last.op = "to_def" /\ NearestContainer(last.node) # NoContainer) =>
          /\ KeyOfCall(last.node) \in DOMAIN dynmap_cache
          /\ last.def = AstPtrPolicy_get(dynmap_cache[KeyOfCall(last.node)],
                                         WrapperKey(NodeTab[last.node].kind),
                                         AstPtrNew(last.node)))
  /\ [][\A k \in DOMAIN dynmap_cache :
          /\ k \in DOMAIN dynmap_cache'
          /\ dynmap_cache'[k] = dynmap_cache[k]
          /\ computed'[k] = computed[k]]_vars

\* the impl I was the container of a node of main and of a node of the
\* expansion mxa: two entries, each computed once, holding different maps, and
\* the method of the expansion was found in the entry of the expansion
C26_Witness ==
  /\ last.op = "to_def"
  /\ last.node = "a_fn"
  /\ KeyOfCall("a_fn")[1] = KeyOfCall("m_att")[1]
  /\ {KeyOfCall("a_fn"), KeyOfCall("m_att")} \subseteq DOMAIN dynmap_cache
  /\ KeyOfCall("a_fn") # KeyOfCall("m_att")
  /\ computed[KeyOfCall("a_fn")] = 1
  /\ computed[KeyOfCall("m_att")] = 1
  /\ dynmap_cache[KeyOfCall("a_fn")] # dynmap_cache[KeyOfCall("m_att")]
  /\ last.def = DefId("FunctionId", "cc", "h", 0)

\* C27: get-or-insert on the def-to-source cache.  For a key that holds
\* nothing the computation runs, its pointer is stored and returned; for a key
\* that holds a pointer that pointer is returned, the computation does not run
\* and the cache stays as it is; so the stored pointer is the one of the first
\* computation, and repeating the call changes nothing
C27_GetOrInsert ==
  /\ []((dlast.op = "get_insert_with" /\ dlast.prev = NoPtr) =>
          /\ dlast.ran
          /\ dlast.ptr = dlast.arg
          /\ DefIdPolicy_get(d2s, dlast.key, dlast.id) = dlast.arg)
  /\ []((dlast.op = "get_insert_with" /\ dlast.prev # NoPtr) =>
          /\ ~dlast.ran
          /\ dlast.ptr = dlast.prev
          /\ DefIdPolicy_get(d2s, dlast.key, dlast.id) = dlast.prev)
  /\ [][(dlast'.op = "get_insert_with" /\ DefIdPolicy_get(d2s, dlast'.key, dlast'.id) # NoPtr)
          => (d2s' = d2s /\ dlast'.ptr = DefIdPolicy_get(d2s, dlast'.key, dlast'.id))]_vars
  /\ [][(dlast.op = "get_insert_with" /\ dlast'.op = "get_insert_with"
           /\ dlast'.key = dlast.key /\ dlast'.id = dlast.id)
          => (d2s' = d2s /\ dlast'.ptr = dlast.ptr /\ ~dlast'.ran)]_vars

\* a second get-or-insert of a struct id whose computation would yield another
\* pointer: the pointer of the first call is returned, nothing is computed
C27_Witness ==
  /\ dlast.op = "get_insert_with"
  /\ dlast.key = STRUCT
  /\ dlast.prev # NoPtr
  /\ dlast.arg # dlast.prev
  /\ ~dlast.ran
  /\ dlast.ptr = dlast.prev

\* a get-or-insert of an absent key: computed once, stored, returned
C27_WitnessAbsent ==
  /\ dlast.op = "get_insert_with"
  /\ dlast.prev = NoPtr
  /\ dlast.ran
  /\ dwritten[<<dlast.key, dlast.id>>] = dlast.ptr

\* C28: the cached path agrees with the uncached one.  In every cache state
\* that get-or-insert calls build, ast_ptr_with_ctx returns the pointer that
\* ast_ptr computes from the location of the id, paired with the file of that
\* location, source_with_ctx returns the node source returns, every stored
\* pointer is the one of its id, and an id without an implementation aborts on
\* both paths
C28_CachedAgreesWithUncached ==
  /\ dlast.op = "ast_ptr_with_ctx" =>
       /\ dlast.ptr = ast_ptr(Lookup(dlast.id))
       /\ dlast.file = Lookup(dlast.id).file
  /\ last.op = "source_with_ctx" => last.node = HasSource_source(last.def)
  /\ dlast.op = Panicked => HasSource_source(dlast.id) = Panicked
  /\ \A d \in ItemDefs :
       DefIdPolicy_get(d2s, KeyOfId(d.kind), d) \in {NoPtr, ast_ptr(Lookup(d))}

\* the source of the method h asked a second time: the pointer comes from the
\* cache, nothing is computed, and it denotes the node the uncached path finds
C28_Witness ==
  /\ dlast.op = "ast_ptr_with_ctx"
  /\ ~dlast.ran
  /\ dlast.id = DefId("FunctionId", "cc", "h", 0)
  /\ dlast.ptr = ast_ptr(Lookup(dlast.id))
  /\ dlast.file = "mxa"
  /\ last.op = "source_with_ctx"
  /\ last.node = "a_fn"

\* two functions under the same key: the second is computed, not read from the
\* entry of the first
C28_WitnessTwo ==
  /\ dlast.op = "ast_ptr_with_ctx"
  /\ dlast.ran
  /\ dlast.id = DefId("FunctionId", "cc", "h", 0)
  /\ DefIdPolicy_get(d2s, FUNCTION, DefId("FunctionId", "cc", "k", 0)) # NoPtr
  /\ dlast.ptr # DefIdPolicy_get(d2s, FUNCTION, DefId("FunctionId", "cc", "k", 0))

\* C29: the source of a function parameter by index.  With a self parameter
\* index 0 is the self parameter and index k >= 1 the ordinary parameter at
\* position k - 1; without one index k is the ordinary parameter at position k;
\* an index past the end, a function without parameter list or without source
\* gives nothing; the source of the self parameter is the list's self parameter
C29_ParamByIndex ==
  gout.done =>
    /\ (gin.has_source /\ gin.has_list /\ gin.has_self /\ gin.idx = 0) =>
         gout.value = [side |-> "Left", pos |-> 0]
    /\ (gin.has_source /\ gin.has_list /\ gin.has_self /\ gin.idx >= 1
          /\ gin.idx - 1 < Len(gin.params)) =>
         gout.value = [side |-> "Right", pos |-> gin.idx - 1]
    /\ (gin.has_source /\ gin.has_list /\ ~gin.has_self /\ gin.idx < Len(gin.params)) =>
         gout.value = [side |-> "Right", pos |-> gin.idx]
    /\ (gin.idx >= Len(gin.params) + (IF gin.has_self THEN 1 ELSE 0)) => gout.value = NoParam
    /\ (~gin.has_source \/ ~gin.has_list) => (gout.value = NoParam /\ gout.self = NoParam)
    /\ gout.self = IF gin.has_source /\ gin.has_list /\ gin.has_self
                   THEN [side |-> "Left", pos |-> 0] ELSE NoParam

\* index 2 of a method with self and two ordinary parameters: the second
\* ordinary parameter
C29_Witness ==
  /\ gout.done
  /\ gin.has_source /\ gin.has_list /\ gin.has_self
  /\ Len(gin.params) = 2
  /\ gin.idx = 2
  /\ gout.value = [side |-> "Right", pos |-> 1]

\* index 2 of a method with self and one ordinary parameter: past the end
C29_WitnessPastEnd ==
  /\ gout.done
  /\ gin.has_source /\ gin.has_list /\ gin.has_self
  /\ Len(gin.params) = 1
  /\ gin.idx = 2
  /\ gout.value = NoParam
====
